---- MODULE Spec2Model ----
(***************************************************************************)
(* A model of the QA_Agent generation pipeline                             *)
(* (backend/services/llm_service): hybrid ranking, the strategy gate, the  *)
(* generation backend's retry loop, the response normalizer and the        *)
(* validation chain of generate_test_cases.                                *)
(*                                                                         *)
(* Text is modelled as a sequence of one-character strings, so that the    *)
(* regular expressions, lower(), split() and the substring test `in` of    *)
(* the Python source are computed character by character.                  *)
(* Floating-point scores are modelled as integers in fixed point (the      *)
(* scale is named at each use).                                            *)
(***************************************************************************)
EXTENDS Integers, Sequences, FiniteSets, TLC

VARIABLES
    pc,                \* position of the running call
    prompt,            \* generate_test_cases: the prompt argument
    retrieved_docs,    \* generate_test_cases: the retrieved_docs argument
    used_chunks,       \* chunks kept by truncate_context_smart
    strategy,          \* result of adaptive_test_generation_strategy
    raw_response,      \* text returned by the generation backend
    test_cases,        \* the case list handed from stage to stage
    result,            \* the value returned to the caller
    backend_calls,     \* number of calls of generate_test_cases_with_ollama
    AIML_AVAILABLE,    \* generate_test_cases.py:52-58, fixed at import time
    zero_cost_answer,  \* the embedder's verdict inside is_validation_context_zero_cost
    doc_type_answer,   \* the embedder's document type for each source
    matcher_importable,\* whether `import backend.services.semantic_matcher` succeeds
    DF_MAP,            \* ranking.py:11, a set of [term, df] entries
    TOTAL_DOCS,        \* ranking.py:12
    LLM_PROVIDER,      \* config.py:5
    attempt,           \* _generate_with_ollama / _generate_with_groq: loop counter
    retries,           \* the retry budget handed to generate_test_cases_with_ollama
    num_predict,       \* the num_predict parameter
    payload_num_predict, \* payload["options"]["num_predict"]
    outcomes,          \* the backend outcomes met so far, oldest first
    arg_max_tokens,    \* truncate_context_smart: the max_tokens argument
    ret_context,       \* truncate_context_smart: the context string returned
    ret_truncated,     \* truncate_context_smart: the flag returned
    html_structure,    \* DeterministicSeleniumGenerator.html_structure
    normalized_steps,  \* _generate_generic_fallback: the steps to map
    step_index,        \* _generate_generic_fallback: the step the loop is at
    body,              \* _generate_generic_fallback: the lines emitted so far
    filled_fields,     \* _generate_generic_fallback: ids of the elements used so far
    verdicts,          \* for each step so far: what is_verification_step answered, the rule
                       \* that took the step and filled_fields as the step found it
    nodes,             \* FormDependencyGraph.nodes: the ids, in insertion order
    edges,             \* FormDependencyGraph.edges
    kb_pc,             \* the positions of the build_kb, load_corpus_statistics and calculate_bm25_score calls
    collection,        \* vectorstore_service: the chunks of the qa_kb collection, by id
    stats_file,        \* the content of logs/corpus_stats.json
    all_chunks,        \* build_kb: the chunks of the upload handled last
    builds,            \* the number of build_kb requests handled so far
    data,              \* load_corpus_statistics: the parsed file
    score_total_docs,  \* calculate_bm25_score: total_docs_for_idf, the local of line 39
    term_df,           \* calculate_bm25_score: the df read at line 44 for each term so far
    pending_terms,     \* calculate_bm25_score: the query terms the loop has not reached
    query_result,      \* the ids query_top_k returned last
    corpus_stats,      \* build_corpus_statistics' local: the statistics it is about to write
    score_doc_terms,   \* calculate_bm25_score's local doc_terms: the words of the document
    generation_log,    \* logs/llm_generations.jsonl: the records appended, oldest first
    dropped_cases,     \* generate_test_cases: the test_ids dropped so far (line 387)
    validating_count   \* generate_test_cases: len(test_cases) as the validation loop starts (line 390)

\* what the process is given by its environment
envVars == <<AIML_AVAILABLE, zero_cost_answer, doc_type_answer, matcher_importable, DF_MAP, TOTAL_DOCS, LLM_PROVIDER>>

\* the locals of generate_test_cases_with_ollama
genVars == <<attempt, retries, num_predict, payload_num_predict, outcomes>>

\* what a direct call of truncate_context_smart is given and returns
ctxVars == <<arg_max_tokens, ret_context, ret_truncated>>

\* the state of the components outside generate_test_cases
\* the locals of _generate_generic_fallback
stepVars == <<html_structure, normalized_steps, step_index, body, filled_fields, verdicts>>

\* a FormDependencyGraph
graphVars == <<nodes, edges>>

\* the knowledge base: the chunk store, the statistics file and the calls that use them
kbVars == <<kb_pc, collection, stats_file, all_chunks, builds, data, score_total_docs, term_df, pending_terms, query_result, corpus_stats, score_doc_terms>>

auxVars == <<ctxVars, stepVars, graphVars, kbVars>>

\* the generation log and the bookkeeping of the validation stages of generate_test_cases
logVars == <<generation_log, dropped_cases, validating_count>>

vars == <<pc, prompt, retrieved_docs, used_chunks, strategy, raw_response, test_cases, result, backend_calls, envVars, genVars, auxVars, logVars>>

CtxIdle == arg_max_tokens = 0 /\ ret_context = <<>> /\ ret_truncated = FALSE

StepIdle == html_structure = <<>> /\ normalized_steps = <<>> /\ step_index = 0 /\ body = <<>> /\ filled_fields = {} /\ verdicts = <<>>

GraphIdle == nodes = <<>> /\ edges = <<>>

KbIdle ==
    /\ kb_pc = [build |-> "idle", load |-> "idle", score |-> "idle", imported |-> FALSE]
    /\ collection = {} /\ stats_file = [state |-> "absent"] /\ all_chunks = <<>> /\ builds = 0
    /\ data = [none |-> TRUE] /\ score_total_docs = 0 /\ term_df = {} /\ pending_terms = {} /\ query_result = {}
    /\ corpus_stats = [none |-> TRUE] /\ score_doc_terms = <<>>

AuxIdle == CtxIdle /\ StepIdle /\ GraphIdle /\ KbIdle

LogIdle == generation_log = <<>> /\ dropped_cases = <<>> /\ validating_count = 0

(***************************************************************************)
(* Characters and strings                                                  *)
(***************************************************************************)
UpperChars == <<"A","B","C","D","E","F","G","H","I","J","K","L","M","N","O","P","Q","R","S","T","U","V","W","X","Y","Z">>

LowerChars == <<"a","b","c","d","e","f","g","h","i","j","k","l","m","n","o","p","q","r","s","t","u","v","w","x","y","z">>

UpperSet == {UpperChars[i] : i \in DOMAIN UpperChars}

LowerSet == {LowerChars[i] : i \in DOMAIN LowerChars}

DigitSet == {"0","1","2","3","4","5","6","7","8","9"}

ToLower == [c \in UpperSet |-> LowerChars[CHOOSE i \in DOMAIN UpperChars : UpperChars[i] = c]]

IsUpper(c) == c \in UpperSet

IsDigit(c) == c \in DigitSet

UpperOrDigitSet == UpperSet \cup DigitSet

IsUpperOrDigit(c) == c \in UpperOrDigitSet

LowerOrDigitSet == LowerSet \cup DigitSet

IsLowerOrDigit(c) == c \in LowerOrDigitSet

\* \w of Python's re, for ASCII text
WordSet == UpperSet \cup LowerSet \cup DigitSet \cup {"_"}

IsWordChar(c) == c \in WordSet

\* \s of Python's re, for the white space the model uses
SpaceSet == {" ", "\n", "\t"}

IsSpace(c) == c \in SpaceSet

Min(S) == CHOOSE x \in S : \A y \in S : x <= y

Max(S) == CHOOSE x \in S : \A y \in S : x >= y

\* str.lower()
lower(s) == [i \in 1..Len(s) |-> IF s[i] \in UpperSet THEN ToLower[s[i]] ELSE s[i]]

\* needle in hay
Contains(hay, needle) == \E i \in 0..(Len(hay) - Len(needle)) : SubSeq(hay, i + 1, i + Len(needle)) = needle

StartsAt(s, i, w) == i + Len(w) - 1 <= Len(s) /\ SubSeq(s, i, i + Len(w) - 1) = w

RECURSIVE Join(_, _)
\* sep.join(parts)
Join(parts, sep) == IF parts = <<>> THEN <<>> ELSE IF Len(parts) = 1 THEN parts[1] ELSE parts[1] \o sep \o Join(Tail(parts), sep)

\* first index j >= i at which the run of characters of S ends (Len(s)+1 at the end of s)
RunEnd(s, i, S) == Min({j \in i..(Len(s) + 1) : j = Len(s) + 1 \/ s[j] \notin S})

\* str.strip()
strip(s) ==
    LET keep == {i \in 1..Len(s) : ~IsSpace(s[i])}
    IN IF keep = {} THEN <<>> ELSE SubSeq(s, Min(keep), Max(keep))

SPACE == <<" ">>

(***************************************************************************)
(* Regular expressions of validation.py, matched as Python's re does:      *)
(* MatchEnd gives the index just after the match that starts at i, or 0.   *)
(***************************************************************************)
\* \$\d+(?:\.\d{2})?
PriceEnd(s, i) ==
    IF s[i] = "$" /\ i + 1 <= Len(s) /\ IsDigit(s[i + 1])
    THEN LET j == RunEnd(s, i + 1, DigitSet)
         IN IF j + 2 <= Len(s) /\ s[j] = "." /\ IsDigit(s[j + 1]) /\ IsDigit(s[j + 2]) THEN j + 3 ELSE j
    ELSE 0

\* \d+%
PercentEnd(s, i) ==
    IF IsDigit(s[i])
    THEN LET j == RunEnd(s, i, DigitSet)
         IN IF j <= Len(s) /\ s[j] = "%" THEN j + 1 ELSE 0
    ELSE 0

\* \b[A-Z][A-Z0-9]{n,}\b
CodeEnd(s, i, n) ==
    IF IsUpper(s[i]) /\ (i = 1 \/ ~IsWordChar(s[i - 1]))
    THEN LET j == RunEnd(s, i + 1, UpperOrDigitSet)
         IN IF j - (i + 1) >= n /\ (j > Len(s) \/ ~IsWordChar(s[j])) THEN j ELSE 0
    ELSE 0

\* the three VALIDATION_PATTERNS, and the alternation of has_verbatim_evidence
MatchEnd(pat, s, i) ==
    CASE pat = "price" -> PriceEnd(s, i)
      [] pat = "percentage" -> PercentEnd(s, i)
      [] pat = "code" -> CodeEnd(s, i, 3)
      [] pat = "evidence" -> IF PriceEnd(s, i) > 0 THEN PriceEnd(s, i) ELSE IF PercentEnd(s, i) > 0 THEN PercentEnd(s, i) ELSE CodeEnd(s, i, 4)

RECURSIVE FindFrom(_, _, _)
FindFrom(pat, s, i) ==
    LET starts == {k \in i..Len(s) : MatchEnd(pat, s, k) > 0}
        Found(k) == <<SubSeq(s, k, MatchEnd(pat, s, k) - 1)>> \o FindFrom(pat, s, MatchEnd(pat, s, k))
    IN IF starts = {} THEN <<>> ELSE Found(Min(starts))

\* re.findall(pattern, s)
findall(pat, s) == CHOOSE r \in {FindFrom(pat, t, 1) : t \in {s}} : TRUE

RECURSIVE SplitFrom(_, _, _)
SplitFrom(s, i, seps) ==
    LET starts == {k \in i..Len(s) : s[k] \notin seps}
        PieceEnd(k) == Min({m \in k..(Len(s) + 1) : m = Len(s) + 1 \/ s[m] \in seps})
        Piece(k) == strip(SubSeq(s, k, PieceEnd(k) - 1))
        Pieces(k) == (IF Piece(k) = <<>> THEN <<>> ELSE <<Piece(k)>>) \o SplitFrom(s, PieceEnd(k), seps)
    IN IF starts = {} THEN <<>> ELSE Pieces(Min(starts))

\* [s.strip() for s in re.split(r'[<seps>]+', raw) if s.strip()]
SplitSteps(raw, seps) == CHOOSE r \in {SplitFrom(t, 1, seps) : t \in {raw}} : TRUE

Take(s, n) == SubSeq(s, 1, IF Len(s) < n THEN Len(s) ELSE n)

(***************************************************************************)
(* semantic_matcher.py: is_validation_context_zero_cost.  The regular      *)
(* expression is computed; the embedding comparison behind it is the       *)
(* embedder's answer for this context (zero_cost_answer).                  *)
(***************************************************************************)
CostWords == {<<"c","o","s","t">>, <<"f","e","e">>, <<"c","h","a","r","g","e">>, <<"p","r","i","c","e">>}

\* (?!0(?:\.00)?(?:\s|$)) at position p
ZeroLookahead(s, p) ==
    \/ StartsAt(s, p, <<"0">>) /\ (p + 1 > Len(s) \/ IsSpace(s[p + 1]))
    \/ StartsAt(s, p, <<"0",".","0","0">>) /\ (p + 4 > Len(s) \/ IsSpace(s[p + 4]))

\* (?:cost|fee|charge|price)(?:s)?\s+(?:is\s+)?\$(?!0(?:\.00)?(?:\s|$))\d+ matched at i
CostPriceAt(s, i) ==
    \E w \in CostWords :
        /\ StartsAt(s, i, w)
        /\ \E a \in {i + Len(w)} \cup (IF StartsAt(s, i + Len(w), <<"s">>) THEN {i + Len(w) + 1} ELSE {}) :
               /\ a <= Len(s) /\ IsSpace(s[a])
               /\ LET b == RunEnd(s, a, SpaceSet)
                  IN \E c \in {b} \cup (IF StartsAt(s, b, <<"i","s">>) /\ b + 2 <= Len(s) /\ IsSpace(s[b + 2]) THEN {RunEnd(s, b + 2, SpaceSet)} ELSE {}) :
                         /\ StartsAt(s, c, <<"$">>)
                         /\ ~ZeroLookahead(s, c + 1)
                         /\ c + 1 <= Len(s) /\ IsDigit(s[c + 1])

is_validation_context_zero_cost(context_text) ==
    IF \E i \in 1..Len(lower(context_text)) : CostPriceAt(lower(context_text), i) THEN FALSE ELSE zero_cost_answer

(***************************************************************************)
(* validation.py                                                           *)
(***************************************************************************)
\* VALIDATION_PATTERNS["code"]["blacklist"]
CodeBlacklist == {<<"S","T","E","P">>, <<"T","E","S","T">>, <<"H","T","T","P">>, <<"J","S","O","N">>, <<"N","O","T","E">>, <<"T","O","D","O">>, <<"F","A","I","L">>, <<"P","A","S","S">>, <<"M","I","S","S","I","N","G">>, <<"P","O","S","T">>, <<"G","E","T">>, <<"P","U","T">>, <<"D","E","L","E","T","E">>, <<"T","R","U","E">>, <<"F","A","L","S","E">>, <<"N","U","L","L">>}

MissingMark(f) == <<"[","M","I","S","S","I","N","G",":"," ">> \o f \o <<"]">>

F_test_id == <<"t","e","s","t","_","i","d">>

F_feature == <<"f","e","a","t","u","r","e">>

F_test_scenario == <<"t","e","s","t","_","s","c","e","n","a","r","i","o">>

F_test_steps == <<"t","e","s","t","_","s","t","e","p","s">>

F_expected_result == <<"e","x","p","e","c","t","e","d","_","r","e","s","u","l","t">>

DefaultSteps == <<<<"S","t","e","p"," ","1">>, <<"S","t","e","p"," ","2">>>>

ValidTestTypes == {"positive", "negative", "boundary", "edge_case"}

ValidPriorities == {"high", "medium", "low"}

\* test_case[f] is missing or falsy, for test_steps
StepsFalsy(tc) == IF tc.steps_is_list THEN tc.test_steps = <<>> ELSE tc.test_steps[1] = <<>>

\* lines 35-40: test_steps after the required-field loop and the list coercion
EnforcedSteps(tc) ==
    IF StepsFalsy(tc) THEN <<MissingMark(F_test_steps)>>
    ELSE IF tc.steps_is_list THEN tc.test_steps
    ELSE LET parts == Take(SplitSteps(tc.test_steps[1], {"\n", ";"}), 6)
         IN IF parts = <<>> THEN DefaultSteps ELSE parts

\* lines 35-37: the issues recorded by the required-field loop, in field order
MissingIssues(tc) ==
    (IF tc.test_id = <<>> THEN <<"missing:test_id">> ELSE <<>>)
    \o (IF tc.feature = <<>> THEN <<"missing:feature">> ELSE <<>>)
    \o (IF tc.test_scenario = <<>> THEN <<"missing:test_scenario">> ELSE <<>>)
    \o (IF StepsFalsy(tc) THEN <<"missing:test_steps">> ELSE <<>>)
    \o (IF tc.expected_result = <<>> THEN <<"missing:expected_result">> ELSE <<>>)
    \o (IF tc.test_type = "" THEN <<"missing:test_type">> ELSE <<>>)
    \o (IF tc.priority = "" THEN <<"missing:priority">> ELSE <<>>)

\* lines 35-47: schema enforcement
EnforceSchema(tc, retrieved_chunks) ==
    [tc EXCEPT
        !.test_id = IF @ = <<>> THEN MissingMark(F_test_id) ELSE @,
        !.feature = IF @ = <<>> THEN MissingMark(F_feature) ELSE @,
        !.test_scenario = IF @ = <<>> THEN MissingMark(F_test_scenario) ELSE @,
        !.expected_result = IF @ = <<>> THEN MissingMark(F_expected_result) ELSE @,
        !.test_steps = EnforcedSteps(tc),
        !.steps_is_list = TRUE,
        !.test_type = IF @ \in ValidTestTypes THEN @ ELSE "positive",
        !.priority = IF @ \in ValidPriorities THEN @ ELSE "medium",
        !.grounded_in = IF @ # <<>> THEN @ ELSE IF retrieved_chunks # <<>> THEN retrieved_chunks[1].source ELSE <<"d","o","c","u","m","e","n","t",".","t","x","t">>]

\* line 48
ContextText(retrieved_chunks) == lower(Join([i \in 1..Len(retrieved_chunks) |-> retrieved_chunks[i].text], SPACE))

\* line 49
ContentText(tc) == tc.test_scenario \o SPACE \o tc.expected_result \o SPACE \o Join(tc.test_steps, SPACE)

\* CheckVal without line 63's lower(): the value is looked up with its case kept
CheckVal_CaseKept(ptype, val) ==
    IF ptype = "price" /\ Len(val) >= 3 /\ SubSeq(val, Len(val) - 2, Len(val)) = <<".","0","0">> THEN SubSeq(val, 1, Len(val) - 3) ELSE val

\* lines 63-66: the value that is looked up in the context
CheckVal(ptype, val) ==
    LET v == lower(val)
    IN IF ptype = "price" /\ Len(v) >= 3 /\ SubSeq(v, Len(v) - 2, Len(v)) = <<".","0","0">> THEN SubSeq(v, 1, Len(v) - 3) ELSE v

\* lines 58-74: whether one extracted value is appended to `fabricated`
IsFabricated(ptype, val, test_type, context_text) ==
    /\ ~(ptype = "code" /\ val \in CodeBlacklist)
    /\ ~(ptype = "code" /\ test_type = "negative")
    /\ ~(ptype = "price" /\ CheckVal(ptype, val) = <<"$","0">> /\ is_validation_context_zero_cost(context_text))
    /\ ~Contains(context_text, CheckVal(ptype, val))

\* lines 55-74: the fabricated values of one pattern, in order of occurrence
FabricatedOf(ptype, tc, context_text) ==
    LET Test(val) == IsFabricated(ptype, val, tc.test_type, context_text)
    IN SelectSeq(findall(ptype, ContentText(tc)), Test)

Fabricated(tc, context_text) ==
    FabricatedOf("price", tc, context_text) \o FabricatedOf("percentage", tc, context_text) \o FabricatedOf("code", tc, context_text)

\* validate_test_case_schema(test_case, retrieved_chunks) -> (test_case, issues)
Marked(test_case, tc1, fabricated) ==
    IF fabricated # <<>>
    THEN [tc |-> [tc1 EXCEPT !.action = "drop", !.hallucination_warning = Take(fabricated, 5)],
          issues |-> MissingIssues(test_case) \o <<"hallucination">>]
    ELSE [tc |-> tc1, issues |-> MissingIssues(test_case)]

\* lines 48-80 on the case as lines 33-47 left it
CheckFabricated(test_case, tc1, retrieved_chunks) ==
    CHOOSE r \in {Marked(test_case, tc1, fabricated) : fabricated \in {Fabricated(tc1, ContextText(retrieved_chunks))}} : TRUE

validate_test_case_schema(test_case, retrieved_chunks) ==
    CHOOSE r \in {CheckFabricated(test_case, tc1, retrieved_chunks) : tc1 \in {EnforceSchema(test_case, retrieved_chunks)}} : TRUE

\* json.dumps(tc), as far as the evidence pattern can tell: the string values of the
\* case, each between double quotes (the keys are lower case and match nothing)
DumpText(tc) == Join(<<tc.test_id, tc.feature, tc.test_scenario>> \o tc.test_steps \o <<tc.expected_result, tc.grounded_in>>, <<"\"">>)

\* has_verbatim_evidence(tc, used_chunks)
has_verbatim_evidence(tc, chunks) ==
    LET context == Join([i \in 1..Len(chunks) |-> lower(chunks[i].text)], SPACE)
        found == findall("evidence", DumpText(tc))
        tokens == {found[i] : i \in DOMAIN found}
    IN \/ tokens = {}
       \/ \E t \in tokens :
              \/ Contains(context, lower(t))
              \/ lower(t) \in {<<"$","0">>, <<"$","0",".","0","0">>} /\ is_validation_context_zero_cost(context)

(***************************************************************************)
(* generate_test_cases.py, lines 392-409: the validation loop              *)
(***************************************************************************)
RECURSIVE Flatten(_)
\* the concatenation of a list of lists
Flatten(lists) == IF lists = <<>> THEN <<>> ELSE Head(lists) \o Flatten(Tail(lists))

Kept(v) == v.tc.action # "drop"

Dropped(v) == v.tc.action = "drop"

\* lines 403-406
FlagEvidence(tc, chunks) == IF has_verbatim_evidence(tc, chunks) THEN tc ELSE [tc EXCEPT !.needs_review = TRUE]

\* lines 395-409 on the results of validate_test_case_schema
Collect(checked, chunks) ==
    [validated_cases |-> [i \in 1..Len(SelectSeq(checked, Kept)) |-> FlagEvidence(SelectSeq(checked, Kept)[i].tc, chunks)],
     all_validation_issues |-> Flatten([i \in 1..Len(SelectSeq(checked, Kept)) |-> SelectSeq(checked, Kept)[i].issues]),
     dropped_cases |-> [i \in 1..Len(SelectSeq(checked, Dropped)) |-> SelectSeq(checked, Dropped)[i].tc.test_id]]

ValidationLoop(cases, chunks) ==
    CHOOSE r \in {Collect(checked, chunks) : checked \in {[i \in 1..Len(cases) |-> validate_test_case_schema(cases[i], chunks)]}} : TRUE

(***************************************************************************)
(* Inputs: retrieved chunks                                                *)
(***************************************************************************)
PromoChunk == [text |-> <<"D","i","s","c","o","u","n","t"," ","c","o","d","e"," ","S","A","V","E","1","0"," ","g","i","v","e","s"," ","1","0","%"," ","o","f","f">>, source |-> <<"p","r","o","m","o",".","m","d">>, distance |-> 20]

ShippingChunk == [text |-> <<"E","x","p","r","e","s","s"," ","s","h","i","p","p","i","n","g"," ","c","o","s","t","s"," ","$","1","0">>, source |-> <<"s","h","i","p","p","i","n","g","_","s","p","e","c",".","m","d">>, distance |-> 40]

GiftChunk == [text |-> <<"G","i","f","t"," ","w","r","a","p","p","i","n","g"," ","i","s"," ","f","r","e","e"," ","o","f"," ","c","h","a","r","g","e">>, source |-> <<"g","i","f","t","_","r","u","l","e","s",".","m","d">>, distance |-> 40]

\* a test case as the model may write it; an absent key is the empty value
Case(id, scenario, steps, is_list, expected, type, grounded) ==
    [test_id |-> id, feature |-> <<"C","h","e","c","k","o","u","t">>, test_scenario |-> scenario, test_steps |-> steps, steps_is_list |-> is_list,
     expected_result |-> expected, test_type |-> type, priority |-> "high", grounded_in |-> grounded,
     action |-> "", hallucination_warning |-> <<>>, needs_review |-> FALSE, quality_score |-> -1, score_rounds_down |-> FALSE, fallback_synthesized |-> FALSE]

\* (scenario, expected result, steps are a list, steps) as a model may write them
SchemaCases ==
    {<<<<"A","p","p","l","y"," ","d","i","s","c","o","u","n","t"," ","c","o","d","e"," ","S","A","V","E","1","0"," ","a","t"," ","c","h","e","c","k","o","u","t">>, <<"S","A","V","E","1","0"," ","g","i","v","e","s"," ","1","0","%"," ","o","f","f">>, TRUE, <<<<"E","n","t","e","r"," ","s","a","v","e","1","0">>, <<"C","l","i","c","k"," ","A","p","p","l","y">>>>>>,
     <<<<"A","p","p","l","y"," ","d","i","s","c","o","u","n","t"," ","c","o","d","e"," ","S","A","V","E","2","0"," ","a","t"," ","c","h","e","c","k","o","u","t">>, <<"S","A","V","E","1","0"," ","g","i","v","e","s"," ","1","0","%"," ","o","f","f">>, TRUE, <<<<"E","n","t","e","r"," ","s","a","v","e","1","0">>, <<"C","l","i","c","k"," ","A","p","p","l","y">>>>>>,
     <<<<"A","p","p","l","y"," ","d","i","s","c","o","u","n","t"," ","c","o","d","e"," ","S","A","V","E","1","0"," ","a","t"," ","c","h","e","c","k","o","u","t">>, <<"S","h","i","p","p","i","n","g"," ","i","s"," ","$","1","0",".","0","0">>, TRUE, <<<<"P","a","y"," ","$","1","0","0">>>>>>,
     <<<<"A","p","p","l","y"," ","d","i","s","c","o","u","n","t"," ","c","o","d","e"," ","S","A","V","E","1","0"," ","a","t"," ","c","h","e","c","k","o","u","t">>, <<"S","h","i","p","p","i","n","g"," ","i","s"," ","$","1","0",".","0","0">>, TRUE, <<<<"E","n","t","e","r"," ","s","a","v","e","1","0">>, <<"C","l","i","c","k"," ","A","p","p","l","y">>>>>>,
     <<<<>>, <<"G","i","f","t"," ","w","r","a","p"," ","i","s"," ","$","0",".","0","0">>, TRUE, <<>>>>,
     <<<<>>, <<"H","T","T","P"," ","e","r","r","o","r"," ","i","s"," ","s","h","o","w","n">>, FALSE, <<<<"O","p","e","n"," ","c","a","r","t",";"," ","E","n","t","e","r"," ","B","O","G","U","S","9","9">>>>>>,
     <<<<"A","p","p","l","y"," ","d","i","s","c","o","u","n","t"," ","c","o","d","e"," ","S","A","V","E","1","0"," ","a","t"," ","c","h","e","c","k","o","u","t">>, <<"G","i","v","e","s"," ","2","0","%"," ","o","f","f">>, TRUE, <<<<"E","n","t","e","r"," ","s","a","v","e","1","0">>, <<"C","l","i","c","k"," ","A","p","p","l","y">>>>>>,
     <<<<"A","p","p","l","y"," ","d","i","s","c","o","u","n","t"," ","c","o","d","e"," ","S","A","V","E","2","0"," ","a","t"," ","c","h","e","c","k","o","u","t">>, <<"G","i","f","t"," ","w","r","a","p"," ","i","s"," ","$","0",".","0","0">>, FALSE, <<<<"O","p","e","n"," ","c","a","r","t",";"," ","E","n","t","e","r"," ","B","O","G","U","S","9","9">>>>>>}

SchemaTypes == {"positive", "negative", "Negative"}

SchemaChunkLists == {<<PromoChunk>>, <<PromoChunk, ShippingChunk>>, <<GiftChunk>>, <<>>}

GenIdle == attempt = 0 /\ retries = 0 /\ num_predict = 0 /\ payload_num_predict = 0 /\ outcomes = <<>>

Idle ==
    /\ prompt = <<>> /\ retrieved_docs = <<>> /\ used_chunks = <<>> /\ strategy = [none |-> TRUE]
    /\ raw_response = <<>> /\ test_cases = <<>> /\ result = [kind |-> "none"] /\ backend_calls = 0
    /\ AIML_AVAILABLE = TRUE /\ zero_cost_answer = FALSE /\ doc_type_answer = <<>> /\ matcher_importable = TRUE /\ DF_MAP = {} /\ TOTAL_DOCS = 0
    /\ LLM_PROVIDER = "ollama" /\ GenIdle /\ AuxIdle

(***************************************************************************)
(* SpecSchema: validate_test_case_schema on one case, then the loop of     *)
(* generate_test_cases that drops the marked case.                         *)
(***************************************************************************)
InitSchema ==
    /\ pc = "schema_call"
    /\ \E c \in SchemaCases, ty \in SchemaTypes :
           test_cases = <<Case(<<"T","C","-","0","0","7">>, c[1], c[4], c[3], c[2], ty, <<"p","r","o","m","o",".","m","d">>)>>
    /\ used_chunks \in SchemaChunkLists
    /\ zero_cost_answer \in BOOLEAN
    /\ prompt = <<>> /\ retrieved_docs = <<>> /\ strategy = [none |-> TRUE]
    /\ raw_response = <<>> /\ result = [kind |-> "none"] /\ backend_calls = 0
    /\ AIML_AVAILABLE = TRUE /\ doc_type_answer = <<>> /\ matcher_importable = TRUE /\ DF_MAP = {} /\ TOTAL_DOCS = 0
    /\ LLM_PROVIDER = "ollama" /\ GenIdle /\ LogIdle /\ AuxIdle

\* the call validate_test_case_schema(tc, used_chunks) of line 393
SchemaCall ==
    /\ pc = "schema_call"
    /\ result' = [kind |-> "schema", input |-> test_cases[1], out |-> validate_test_case_schema(test_cases[1], used_chunks)]
    /\ pc' = "schema_loop"
    /\ UNCHANGED <<prompt, retrieved_docs, used_chunks, strategy, raw_response, test_cases, backend_calls, envVars, auxVars, genVars, logVars>>

\* lines 392-409 on the one-case list
SchemaLoop ==
    /\ pc = "schema_loop"
    /\ test_cases' = ValidationLoop(test_cases, used_chunks).validated_cases
    /\ pc' = "schema_done"
    /\ UNCHANGED <<prompt, retrieved_docs, used_chunks, strategy, raw_response, result, backend_calls, envVars, auxVars, genVars, logVars>>

NextSchema == SchemaCall \/ SchemaLoop

SpecSchema == InitSchema /\ [][NextSchema]_vars

(***************************************************************************)
(* C2                                                                      *)
(***************************************************************************)
\* the (pattern, value) pairs extracted from scenario, expected result and steps
ExtractedValues(tc) ==
    LET Of(p) == {<<p, findall(p, ContentText(tc))[i]>> : i \in DOMAIN findall(p, ContentText(tc))}
    IN Of("price") \cup Of("percentage") \cup Of("code")

\* the three exemptions the claim names
Exempted(pv, tc, chunks) ==
    \/ pv[1] = "code" /\ pv[2] \in CodeBlacklist
    \/ pv[1] = "code" /\ tc.test_type = "negative"
    \/ pv[1] = "price" /\ lower(pv[2]) \in {<<"$","0">>, <<"$","0",".","0","0">>} /\ is_validation_context_zero_cost(ContextText(chunks))

\* a price without its trailing ".00"
WithoutCents(pv) ==
    IF pv[1] = "price" /\ Len(pv[2]) >= 3 /\ SubSeq(pv[2], Len(pv[2]) - 2, Len(pv[2])) = <<".","0","0">> THEN SubSeq(pv[2], 1, Len(pv[2]) - 3) ELSE pv[2]

RECURSIVE WordsFrom(_, _)
WordsFrom(s, i) ==
    LET starts == {k \in i..Len(s) : IsWordChar(s[k])}
        Found(k) == <<SubSeq(s, k, RunEnd(s, k, WordSet) - 1)>> \o WordsFrom(s, RunEnd(s, k, WordSet))
    IN IF starts = {} THEN <<>> ELSE Found(Min(starts))

\* re.findall(r'\w+', s)
Words(s) == CHOOSE r \in {WordsFrom(t, 1) : t \in {s}} : TRUE

RECURSIVE SumOver(_, _)
\* sum(F[x] for x in S)
SumOver(S, F) == IF S = {} THEN 0 ELSE LET x == CHOOSE y \in S : TRUE IN F[x] + SumOver(S \ {x}, F)

\* 1000 * ln(n), n = 1..10
LnMilli == <<0, 693, 1099, 1386, 1609, 1792, 1946, 2079, 2197, 2303>>

\* DF_MAP.get(term, 0)
DfOf(term) == IF \E e \in DF_MAP : e.term = term THEN (CHOOSE e \in DF_MAP : e.term = term).df ELSE 0

\* calculate_bm25_score(query, document), in thousandths; k1 = 1.5, b = 0.75,
\* avg_doc_length = 500: numerator/denominator = 10000 tf / (4000 tf + 1500 + 9 dl)
calculate_bm25_score(query, document) ==
    LET qwords == Words(lower(query))
        query_terms == {qwords[i] : i \in DOMAIN qwords}
        doc_terms == Words(lower(document))
        doc_length == Len(doc_terms)
        total_docs_for_idf == IF TOTAL_DOCS > 1 THEN TOTAL_DOCS ELSE 1
        tf == [term \in query_terms |-> Cardinality({i \in DOMAIN doc_terms : doc_terms[i] = term})]
        part == [term \in query_terms |->
                    IF tf[term] > 0
                    THEN ((LnMilli[1 + total_docs_for_idf] - LnMilli[1 + DfOf(term)] + 1000) * 10000 * tf[term]) \div (4000 * tf[term] + 1500 + 9 * doc_length)
                    ELSE 0]
    IN SumOver(query_terms, part)

DocTypes == {"specification", "validation_rules", "api_documentation", "ui_guidelines", "general"}

\* doc_type_weights, in tenths
doc_type_weights(doc_type) ==
    CASE doc_type = "specification" -> 15
      [] doc_type = "validation_rules" -> 14
      [] doc_type = "api_documentation" -> 13
      [] doc_type = "ui_guidelines" -> 11
      [] OTHER -> 10

\* classify_document_type(source) when the matcher is importable: the type the embedder
\* gives this source (semantic_matcher.classify_document_type)
classify_document_type(source) == doc_type_answer[source]

\* query.lower().split()
SplitWhitespace(s) == SplitFrom(s, 1, {" ", "\n", "\t"})

\* lines 115-122: phrase_score in millionths
PhraseScore(query, text) ==
    LET query_words == SplitWhitespace(lower(query))
        hits == Cardinality({i \in 1..(Len(query_words) - 1) : Contains(lower(text), query_words[i] \o SPACE \o query_words[i + 1])})
    IN IF 250000 * hits > 1000000 THEN 1000000 ELSE 250000 * hits

\* lines 105-109: metadata_score in millionths
MetadataScore(text) == 500000 + (IF Len(text) > 100 THEN 200000 ELSE 0) + (IF Len(text) > 500 THEN 100000 ELSE 0)

\* lines 99-100: embedding_score in millionths; distance is in hundredths and 1.0 when the
\* chunk has no such key
EmbeddingScore(chunk) == (100 - (IF "distance" \in DOMAIN chunk THEN chunk.distance ELSE 100)) * 10000

\* lines 97-134: the scored copy of one chunk; hybrid_score is in units of 1e-7
ScoreChunk(chunk, query) ==
    LET bm25_score == calculate_bm25_score(query, chunk.text)
        bm25_normalized == IF bm25_score * 100 > 1000000 THEN 1000000 ELSE bm25_score * 100
        doc_type == classify_document_type(chunk.source)
        weighted == (EmbeddingScore(chunk) * 50 + bm25_normalized * 30 + MetadataScore(chunk.text) * 15 + PhraseScore(query, chunk.text) * 5) \div 100
    IN [doc_type |-> doc_type, hybrid_score |-> weighted * doc_type_weights(doc_type), bm25_score |-> bm25_score] @@ chunk

\* a sort that puts x in front of the elements it ties with
InsertDesc_TiesReversed(sorted, x) ==
    LET k == Cardinality({i \in DOMAIN sorted : sorted[i].hybrid_score > x.hybrid_score})
    IN SubSeq(sorted, 1, k) \o <<x>> \o SubSeq(sorted, k + 1, Len(sorted))

\* the place of x in a list sorted by non-increasing hybrid_score: behind every element
\* that does not score less
InsertDesc(sorted, x) ==
    LET k == Cardinality({i \in DOMAIN sorted : sorted[i].hybrid_score >= x.hybrid_score})
    IN SubSeq(sorted, 1, k) \o <<x>> \o SubSeq(sorted, k + 1, Len(sorted))

RECURSIVE SortDesc(_)
\* list.sort(key=hybrid_score, reverse=True): stable
SortDesc(list) == IF list = <<>> THEN <<>> ELSE InsertDesc(SortDesc(SubSeq(list, 1, Len(list) - 1)), list[Len(list)])

\* hybrid_rank_chunks(chunks, query)
hybrid_rank_chunks(chunks, query) == SortDesc([i \in 1..Len(chunks) |-> ScoreChunk(chunks[i], query)])

\* \b[a-z0-9]{3,}\b
TermEnd(s, i) ==
    IF IsLowerOrDigit(s[i]) /\ (i = 1 \/ ~IsWordChar(s[i - 1]))
    THEN LET j == RunEnd(s, i, LowerOrDigitSet)
         IN IF j - i >= 3 /\ (j > Len(s) \/ ~IsWordChar(s[j])) THEN j ELSE 0
    ELSE 0

RECURSIVE TermsFrom(_, _)
TermsFrom(s, i) ==
    LET starts == {k \in i..Len(s) : TermEnd(s, k) > 0}
        Found(k) == {SubSeq(s, k, TermEnd(s, k) - 1)} \cup TermsFrom(s, TermEnd(s, k))
    IN IF starts = {} THEN {} ELSE Found(Min(starts))

\* line 156: set(re.findall(r'\b[a-z0-9]{3,}\b', prompt_lower))
PromptTerms(p) == CHOOSE r \in {TermsFrom(t, 1) : t \in {lower(p)}} : TRUE

\* lines 157-163
common_words == {<<"t","e","s","t">>, <<"c","a","s","e">>, <<"c","a","s","e","s">>, <<"g","e","n","e","r","a","t","e">>, <<"c","r","e","a","t","e">>, <<"m","a","k","e">>, <<"f","o","r">>, <<"t","h","e">>, <<"a","n","d">>, <<"t","h","a","t">>, <<"t","h","i","s">>, <<"w","i","t","h">>, <<"f","r","o","m">>, <<"w","i","l","l">>, <<"s","h","o","u","l","d">>, <<"w","o","u","l","d">>, <<"c","o","u","l","d">>, <<"h","a","v","e">>, <<"b","e","e","n">>, <<"w","h","i","c","h">>, <<"t","h","e","i","r">>, <<"w","h","a","t">>, <<"a","b","o","u","t">>, <<"w","h","e","n">>, <<"w","h","e","r","e">>, <<"t","h","e","r","e">>, <<"s","o","m","e">>, <<"i","n","t","o">>, <<"t","h","a","n">>, <<"t","h","e","m">>, <<"t","h","e","s","e">>, <<"t","h","o","s","e">>, <<"y","o","u","r">>, <<"w","r","i","t","e">>, <<"u","s","i","n","g">>, <<"v","e","r","i","f","y">>, <<"c","h","e","c","k">>, <<"v","a","l","i","d","a","t","e">>, <<"e","n","s","u","r","e">>, <<"p","o","s","i","t","i","v","e">>, <<"n","e","g","a","t","i","v","e">>, <<"s","c","e","n","a","r","i","o">>, <<"s","t","e","p">>, <<"s","t","e","p","s">>, <<"r","e","s","u","l","t">>, <<"e","x","p","e","c","t","e","d">>, <<"o","u","t","c","o","m","e">>, <<"f","e","a","t","u","r","e">>, <<"f","u","n","c","t","i","o","n">>, <<"s","y","s","t","e","m">>, <<"a","p","p","l","i","c","a","t","i","o","n">>}

\* line 155
AllText(chunks) == lower(Join([i \in 1..Len(chunks) |-> chunks[i].text], SPACE))

\* line 164
PromptDomainTerms(p) == PromptTerms(p) \ common_words

\* line 165
MatchedTerms(chunks, p) == Cardinality({t \in PromptDomainTerms(p) : Contains(AllText(chunks), t)})

\* line 166: domain_overlap_ratio in millionths
DomainOverlapRatio(chunks, p) ==
    IF PromptDomainTerms(p) # {} THEN (MatchedTerms(chunks, p) * 1000000) \div Cardinality(PromptDomainTerms(p)) ELSE 0

\* line 171: domain_overlap_ratio < 0.3, decided on the exact fraction
BelowDomainGate(chunks, p) ==
    IF PromptDomainTerms(p) # {} THEN MatchedTerms(chunks, p) * 10 < 3 * Cardinality(PromptDomainTerms(p)) ELSE TRUE

\* line 181: re.findall(r'\$\d+|\d+%|[A-Z]{2,}\d+|P\d{3}', all_text) is not empty
HasSpecifics(all_text) ==
    \E i \in 1..Len(all_text) :
        \/ all_text[i] = "$" /\ i + 1 <= Len(all_text) /\ IsDigit(all_text[i + 1])
        \/ PercentEnd(all_text, i) > 0
        \/ IsUpper(all_text[i]) /\ RunEnd(all_text, i, UpperSet) - i >= 2 /\ RunEnd(all_text, i, UpperSet) <= Len(all_text) /\ IsDigit(all_text[RunEnd(all_text, i, UpperSet)])
        \/ all_text[i] = "P" /\ i + 3 <= Len(all_text) /\ IsDigit(all_text[i + 1]) /\ IsDigit(all_text[i + 2]) /\ IsDigit(all_text[i + 3])

\* lines 182-185
RuleKeywords == {<<"m","u","s","t"," ","b","e">>, <<"s","h","o","u","l","d"," ","b","e">>, <<"r","e","q","u","i","r","e","d"," ","f","i","e","l","d">>, <<"l","i","m","i","t">>, <<"c","o","n","s","t","r","a","i","n","t">>, <<"v","a","l","i","d","a","t","i","o","n">>, <<"e","r","r","o","r"," ","m","e","s","s","a","g","e">>, <<"m","i","n","i","m","u","m">>, <<"m","a","x","i","m","u","m">>}

\* lines 186-188
ExampleKeywords == {<<"e","x","a","m","p","l","e">>, <<"e",".","g",".">>, <<"f","o","r"," ","i","n","s","t","a","n","c","e">>, <<"s","u","c","h"," ","a","s">>}

\* lines 179-195: confidence in millionths (avg_score is in units of 1e-7)
Confidence(chunks, p) ==
    LET total_score == SumOver(DOMAIN chunks, [i \in DOMAIN chunks |-> chunks[i].hybrid_score])
        avg_score == total_score \div Len(chunks)
        sum == DomainOverlapRatio(chunks, p) \div 2 + avg_score \div 40
               + (IF HasSpecifics(AllText(chunks)) THEN 150000 ELSE 0)
               + (IF \E kw \in RuleKeywords : Contains(AllText(chunks), kw) THEN 80000 ELSE 0)
               + (IF \E kw \in ExampleKeywords : Contains(AllText(chunks), kw) THEN 20000 ELSE 0)
    IN IF sum > 1000000 THEN 1000000 ELSE sum

\* a guard that fires below one fifth
DomainGate_Fifth(chunks, p) == DomainOverlapRatio(chunks, p) < 200000

\* lines 171-178: the out-of-domain guard
DomainGate(chunks, p) == BelowDomainGate(chunks, p)

\* adaptive_test_generation_strategy(chunks, prompt)
adaptive_test_generation_strategy(chunks, p) ==
    IF chunks = <<>>
    THEN [strategy |-> "abort", confidence |-> 0, recommendation |-> <<"No relevant documentation found.">>, should_proceed |-> FALSE]
    ELSE IF DomainGate(chunks, p)
    THEN [strategy |-> "abort", confidence |-> 0, recommendation |-> <<"Out-of-domain request.", DomainOverlapRatio(chunks, p)>>, should_proceed |-> FALSE]
    ELSE IF Confidence(chunks, p) < 400000
    THEN [strategy |-> "abort", confidence |-> Confidence(chunks, p), recommendation |-> <<"Documentation quality too low", Confidence(chunks, p)>>, should_proceed |-> FALSE]
    ELSE IF Confidence(chunks, p) < 600000
    THEN [strategy |-> "minimal", confidence |-> Confidence(chunks, p), recommendation |-> <<"Low confidence. Generate basic test cases with warnings.">>, should_proceed |-> TRUE]
    ELSE IF Confidence(chunks, p) < 800000
    THEN [strategy |-> "standard", confidence |-> Confidence(chunks, p), recommendation |-> <<"Moderate confidence. Standard test case generation.">>, should_proceed |-> TRUE]
    ELSE [strategy |-> "comprehensive", confidence |-> Confidence(chunks, p), recommendation |-> <<"High confidence. Comprehensive test coverage possible.">>, should_proceed |-> TRUE]

(***************************************************************************)
(* SpecGate: hybrid_rank_chunks on a chunk list and a prompt, then         *)
(* adaptive_test_generation_strategy on the ranked list                    *)
(* (generate_test_cases.py:86-90).                                         *)
(***************************************************************************)
PromoDoc == [text |-> PromoChunk.text, source |-> PromoChunk.source]

RulesText == <<"C","o","d","e"," ","m","u","s","t"," ","b","e"," ","1","0","%"," ","e",".","g","."," ","S","A","V","E","1","0">>

RulesSource == <<"p","r","o","m","o","_","r","u","l","e","s",".","m","d">>

\* the chunks a retrieval may hand over; two of them tie on every score, two have a
\* distance above 1 (a squared L2 distance of the store goes up to 4 for unit vectors)
GateChunks ==
    {PromoDoc,
     [id |-> 1] @@ PromoChunk,
     [id |-> 2] @@ PromoChunk,
     [id |-> 3, text |-> RulesText, source |-> RulesSource, distance |-> 0],
     [id |-> 4, text |-> GiftChunk.text, source |-> GiftChunk.source, distance |-> 250],
     [id |-> 5, text |-> RulesText, source |-> RulesSource, distance |-> 400]}

MaxChunks == 2

RECURSIVE SeqsUpTo(_, _)
SeqsUpTo(S, n) == IF n = 0 THEN {<<>>} ELSE SeqsUpTo(S, n - 1) \cup {Append(q, x) : q \in SeqsUpTo(S, n - 1), x \in S}

GatePrompts ==
    {<<"G","e","n","e","r","a","t","e"," ","1"," ","t","e","s","t"," ","c","a","s","e">>,
     <<"G","e","n","e","r","a","t","e"," ","t","e","s","t"," ","c","a","s","e","s"," ","f","o","r"," ","d","i","s","c","o","u","n","t"," ","c","o","d","e">>,
     <<"T","e","s","t"," ","d","i","s","c","o","u","n","t"," ","c","o","d","e"," ","r","e","f","u","n","d"," ","p","o","l","i","c","y">>,
     <<"D","i","s","c","o","u","n","t"," ","l","o","g","i","n"," ","p","a","s","s","w","o","r","d"," ","r","e","s","e","t"," ","f","l","o","w">>,
     <<"V","e","r","i","f","y"," ","l","o","g","i","n"," ","p","a","s","s","w","o","r","d"," ","r","e","s","e","t">>}

GateSources == {PromoChunk.source, RulesSource, GiftChunk.source}

DocTypeAnswers ==
    {[src \in GateSources |-> "general"],
     [src \in GateSources |-> IF src = RulesSource THEN "specification" ELSE "ui_guidelines"],
     [src \in GateSources |-> IF src = RulesSource THEN "validation_rules" ELSE "api_documentation"]}

\* corpus statistics as load_corpus_statistics may have left them
CorpusStats == {[df_map |-> {}, total_docs |-> 0], [df_map |-> {[term |-> <<"d","i","s","c","o","u","n","t">>, df |-> 1], [term |-> <<"c","o","d","e">>, df |-> 3]}, total_docs |-> 2]}

InitGate ==
    /\ pc = "rank_call"
    /\ prompt \in GatePrompts
    /\ retrieved_docs \in SeqsUpTo(GateChunks, MaxChunks)
    /\ matcher_importable \in BOOLEAN
    /\ doc_type_answer \in (IF matcher_importable THEN DocTypeAnswers ELSE {<<>>})
    /\ \E cs \in CorpusStats : DF_MAP = cs.df_map /\ TOTAL_DOCS = cs.total_docs
    /\ used_chunks = <<>> /\ strategy = [none |-> TRUE]
    /\ raw_response = <<>> /\ test_cases = <<>> /\ result = [kind |-> "none"] /\ backend_calls = 0
    /\ AIML_AVAILABLE = matcher_importable /\ zero_cost_answer = FALSE
    /\ LLM_PROVIDER = "ollama" /\ GenIdle /\ LogIdle /\ AuxIdle

\* ranking.py:56: the import of classify_document_type is outside its try
RankRaises(chunks) == chunks # <<>> /\ ~matcher_importable

\* hybrid_rank_chunks(retrieved_docs, prompt) returns
RankCall ==
    /\ pc = "rank_call"
    /\ ~RankRaises(retrieved_docs)
    /\ used_chunks' = hybrid_rank_chunks(retrieved_docs, prompt)
    /\ pc' = "ranked"
    /\ UNCHANGED <<prompt, retrieved_docs, strategy, raw_response, test_cases, result, backend_calls, envVars, auxVars, genVars, logVars>>

\* hybrid_rank_chunks(retrieved_docs, prompt) raises ImportError
RankImportError ==
    /\ pc = "rank_call"
    /\ RankRaises(retrieved_docs)
    /\ result' = [kind |-> "exception", error |-> "ImportError"]
    /\ pc' = "raised"
    /\ UNCHANGED <<prompt, retrieved_docs, used_chunks, strategy, raw_response, test_cases, backend_calls, envVars, auxVars, genVars, logVars>>

\* adaptive_test_generation_strategy(ranked_chunks, prompt)
StrategyCall ==
    /\ pc = "ranked"
    /\ strategy' = adaptive_test_generation_strategy(used_chunks, prompt)
    /\ pc' = "decided"
    /\ UNCHANGED <<prompt, retrieved_docs, used_chunks, raw_response, test_cases, result, backend_calls, envVars, auxVars, genVars, logVars>>

NextGate == RankCall \/ RankImportError \/ StrategyCall

SpecGate == InitGate /\ [][NextGate]_vars

(***************************************************************************)
(* Claims on SpecGate                                                      *)
(***************************************************************************)
Perms(n) == {f \in [1..n -> 1..n] : \A i, j \in 1..n : i # j => f[i] # f[j]}

\* the keys a ranked chunk carries over from its input chunk
InputFields(c) == [k \in DOMAIN c \ {"hybrid_score", "bm25_score", "doc_type"} |-> c[k]]

\* C10: whenever hybrid_rank_chunks returns, its output is a permutation of the input
\* list (same length, every input chunk exactly once), ordered by non-increasing
\* hybrid_score, and chunks of equal hybrid_score keep their input order.
C10_StablePermutation ==
    pc \in {"ranked", "decided"} =>
        /\ Len(used_chunks) = Len(retrieved_docs)
        /\ \E f \in Perms(Len(retrieved_docs)) :
               /\ \A i \in DOMAIN used_chunks : InputFields(used_chunks[i]) = retrieved_docs[f[i]]
               /\ \A i, j \in DOMAIN used_chunks : i < j => used_chunks[i].hybrid_score >= used_chunks[j].hybrid_score
               /\ \A i, j \in DOMAIN used_chunks : (i < j /\ used_chunks[i].hybrid_score = used_chunks[j].hybrid_score) => f[i] < f[j]

\* a ranked list of two different chunks that tie
C10_Witness ==
    /\ pc = "ranked"
    /\ Len(used_chunks) = 2
    /\ used_chunks[1].hybrid_score = used_chunks[2].hybrid_score
    /\ retrieved_docs[1] # retrieved_docs[2]

\* C3: for a non-empty chunk list and a prompt whose domain overlap ratio is below 0.3
\* (0 when the prompt has no domain term), the strategy is abort and should_proceed is false.
C3_LowOverlapAborts ==
    (/\ pc = "decided"
     /\ used_chunks # <<>>
     /\ \/ PromptDomainTerms(prompt) = {}
        \/ 10 * MatchedTerms(used_chunks, prompt) < 3 * Cardinality(PromptDomainTerms(prompt)))
    => (strategy.strategy = "abort" /\ strategy.should_proceed = FALSE)

\* a prompt with a matching domain term, yet below the threshold, over chunks that
\* would otherwise score above the confidence floor
C3_Witness ==
    /\ pc = "decided"
    /\ used_chunks # <<>>
    /\ MatchedTerms(used_chunks, prompt) > 0
    /\ 10 * MatchedTerms(used_chunks, prompt) < 3 * Cardinality(PromptDomainTerms(prompt))
    /\ Confidence(used_chunks, prompt) >= 400000
    /\ strategy.strategy = "abort"

\* C5: for the prompt "Generate 1 test case" and the single chunk
\* {text: "Discount code SAVE10 gives 10% off", source: "promo.md"} the strategy has
\* should_proceed = true.
C5_Generate1Proceeds ==
    (pc = "decided" /\ prompt = <<"G","e","n","e","r","a","t","e"," ","1"," ","t","e","s","t"," ","c","a","s","e">> /\ retrieved_docs = <<PromoDoc>>)
    => strategy.should_proceed = TRUE

(***************************************************************************)
(* generators.py.  A text handed over by a backend is a sequence of        *)
(* tokens, each a string of characters; its length is counted in           *)
(* characters.                                                             *)
(***************************************************************************)
RECURSIVE CharLen(_)
\* len(text)
CharLen(text) == IF text = <<>> THEN 0 ELSE Len(Head(text)) + CharLen(Tail(text))

BlankTokens == {" ", "\n", "\t"}

\* text.strip()
StripText(text) ==
    IF \A i \in DOMAIN text : text[i] \in BlankTokens THEN <<>>
    ELSE SubSeq(text, Min({i \in DOMAIN text : text[i] \notin BlankTokens}), Max({i \in DOMAIN text : text[i] \notin BlankTokens}))

\* the value every path returns when it gives up
EmptySentinel == <<"[", "]">>

\* lines 88-93
ClampNumPredict(n) == IF n < 100 THEN 200 ELSE IF n > 2000 THEN 2000 ELSE n

\* line 169: not raw_text or len(raw_text.strip()) < 10
OllamaShort(raw_text) == raw_text = <<>> \/ CharLen(StripText(raw_text)) < 10

\* line 60: if response_text
GroqTruthy(response_text) == response_text # <<>>

\* what one request to a backend can end in
Outcome(kind, text) == [kind |-> kind, text |-> text]

ErrorKinds == {"timeout", "connection_error", "http_error", "exception"}

BackendTexts ==
    {<<>>,
     <<" ", "\n">>,
     <<"ok">>,
     <<" ", "{", "}", " ">>,
     <<"[", "{", "\"test_id\"", ":", "\"TC-1\"", "}", "]">>}

BackendOutcomes == {Outcome(k, <<>>) : k \in ErrorKinds} \cup {Outcome("response", t) : t \in BackendTexts}

MaxRetries == 2

RequestedNumPredict == {50, 600, 1500, 3000}

GenPrompts == {<<>>, <<" ">>, <<"Generate", " ", "tests">>}

Returned(text) == [kind |-> "returned", text |-> text]

InitGenerator ==
    /\ pc = "gen_call"
    /\ prompt \in GenPrompts
    /\ LLM_PROVIDER \in {"ollama", "groq"}
    /\ retries \in 0..MaxRetries
    /\ num_predict \in RequestedNumPredict
    /\ payload_num_predict = 0 /\ attempt = 0 /\ outcomes = <<>>
    /\ retrieved_docs = <<>> /\ used_chunks = <<>> /\ strategy = [none |-> TRUE]
    /\ raw_response = <<>> /\ test_cases = <<>> /\ result = [kind |-> "none"] /\ backend_calls = 0
    /\ AIML_AVAILABLE = TRUE /\ zero_cost_answer = FALSE /\ doc_type_answer = <<>> /\ matcher_importable = TRUE /\ DF_MAP = {} /\ TOTAL_DOCS = 0
    /\ AuxIdle /\ LogIdle

\* lines 31-33: an empty prompt is answered without any request
GenEmptyPrompt ==
    /\ pc = "gen_call"
    /\ StripText(prompt) = <<>>
    /\ result' = Returned(EmptySentinel)
    /\ pc' = "gen_done"
    /\ UNCHANGED <<prompt, retrieved_docs, used_chunks, strategy, raw_response, test_cases, backend_calls, envVars, auxVars, genVars, logVars>>

\* lines 35-38 and 88-123 (ollama) or 49 (groq): enter the loop of the provider
GenDispatch ==
    /\ pc = "gen_call"
    /\ StripText(prompt) # <<>>
    /\ IF LLM_PROVIDER = "groq"
       THEN /\ attempt' = 1
            /\ pc' = "groq_loop"
            /\ UNCHANGED <<num_predict, payload_num_predict>>
       ELSE /\ attempt' = 0
            /\ num_predict' = ClampNumPredict(num_predict)
            /\ payload_num_predict' = ClampNumPredict(num_predict)
            /\ pc' = "ollama_loop"
    /\ UNCHANGED <<prompt, retrieved_docs, used_chunks, strategy, raw_response, test_cases, result, backend_calls, envVars, auxVars, logVars, retries, outcomes>>

\* lines 126-178: one pass of the while loop that gets a response
OllamaResponse ==
    /\ pc = "ollama_loop"
    /\ attempt <= retries
    /\ \E raw_text \in BackendTexts :
           /\ outcomes' = Append(outcomes, Outcome("response", raw_text))
           /\ IF OllamaShort(raw_text)
              THEN /\ attempt' = attempt + 1
                   /\ UNCHANGED <<pc, result>>
              ELSE /\ result' = Returned(raw_text)
                   /\ pc' = "gen_done"
                   /\ UNCHANGED attempt
    /\ UNCHANGED <<prompt, retrieved_docs, used_chunks, strategy, raw_response, test_cases, backend_calls, envVars, auxVars, logVars, retries, num_predict, payload_num_predict>>

\* lines 180-199: requests.exceptions.Timeout
OllamaTimeout ==
    /\ pc = "ollama_loop"
    /\ attempt <= retries
    /\ outcomes' = Append(outcomes, Outcome("timeout", <<>>))
    /\ payload_num_predict' = IF attempt = 0 /\ num_predict > 600 THEN 600 ELSE payload_num_predict
    /\ attempt' = attempt + 1
    /\ UNCHANGED <<pc, prompt, retrieved_docs, used_chunks, strategy, raw_response, test_cases, result, backend_calls, envVars, auxVars, logVars, retries, num_predict>>

\* lines 201-234: ConnectionError, HTTPError and any other exception
OllamaError ==
    /\ pc = "ollama_loop"
    /\ attempt <= retries
    /\ \E k \in ErrorKinds \ {"timeout"} : outcomes' = Append(outcomes, Outcome(k, <<>>))
    /\ attempt' = attempt + 1
    /\ UNCHANGED <<pc, prompt, retrieved_docs, used_chunks, strategy, raw_response, test_cases, result, backend_calls, envVars, auxVars, logVars, retries, num_predict, payload_num_predict>>

\* lines 236-243: the loop is left with every attempt used up
OllamaExhausted ==
    /\ pc = "ollama_loop"
    /\ attempt > retries
    /\ result' = Returned(EmptySentinel)
    /\ pc' = "gen_done"
    /\ UNCHANGED <<prompt, retrieved_docs, used_chunks, strategy, raw_response, test_cases, backend_calls, envVars, auxVars, genVars, logVars>>

\* lines 49-64: one pass of the for loop in which generate_test_cases_with_groq returns
GroqResponse ==
    /\ pc = "groq_loop"
    /\ attempt <= retries
    /\ \E response_text \in BackendTexts :
           /\ outcomes' = Append(outcomes, Outcome("response", response_text))
           /\ IF GroqTruthy(response_text)
              THEN /\ result' = Returned(response_text)
                   /\ pc' = "gen_done"
                   /\ UNCHANGED attempt
              ELSE /\ attempt' = attempt + 1
                   /\ UNCHANGED <<pc, result>>
    /\ UNCHANGED <<prompt, retrieved_docs, used_chunks, strategy, raw_response, test_cases, backend_calls, envVars, auxVars, logVars, retries, num_predict, payload_num_predict>>

\* lines 66-74: generate_test_cases_with_groq raises (groq_service.py:96-108 turns every
\* failure of the request into a GroqServiceError)
GroqError ==
    /\ pc = "groq_loop"
    /\ attempt <= retries
    /\ \E k \in ErrorKinds : outcomes' = Append(outcomes, Outcome(k, <<>>))
    /\ IF attempt = retries
       THEN /\ result' = Returned(EmptySentinel)
            /\ pc' = "gen_done"
            /\ UNCHANGED attempt
       ELSE /\ attempt' = attempt + 1
            /\ UNCHANGED <<pc, result>>
    /\ UNCHANGED <<prompt, retrieved_docs, used_chunks, strategy, raw_response, test_cases, backend_calls, envVars, auxVars, logVars, retries, num_predict, payload_num_predict>>

\* line 76: the for loop ran out
GroqExhausted ==
    /\ pc = "groq_loop"
    /\ attempt > retries
    /\ result' = Returned(EmptySentinel)
    /\ pc' = "gen_done"
    /\ UNCHANGED <<prompt, retrieved_docs, used_chunks, strategy, raw_response, test_cases, backend_calls, envVars, auxVars, genVars, logVars>>

NextGenerator ==
    \/ GenEmptyPrompt \/ GenDispatch
    \/ OllamaResponse \/ OllamaTimeout \/ OllamaError \/ OllamaExhausted
    \/ GroqResponse \/ GroqError \/ GroqExhausted

SpecGenerator == InitGenerator /\ [][NextGenerator]_vars

\* an attempt that did not bring a usable text: an error, or a response that is empty or
\* has fewer than 10 characters once stripped
FailedAttempt(o) == o.kind # "response" \/ CharLen(StripText(o.text)) < 10

\* C8: whatever the backend outcomes, generate_test_cases_with_ollama ends after at most
\* retries + 1 attempts, returns (no exception reaches the caller), returns the empty
\* sentinel when every attempt failed, and never returns an empty or near-empty response
\* as a success.
C8_RetryContract ==
    /\ Len(outcomes) <= retries + 1
    /\ pc = "gen_done" =>
           /\ result.kind = "returned"
           /\ (\A i \in DOMAIN outcomes : FailedAttempt(outcomes[i])) => result.text = EmptySentinel
           /\ \A i \in DOMAIN outcomes : (outcomes[i].kind = "response" /\ FailedAttempt(outcomes[i])) => (i < Len(outcomes) \/ result.text = EmptySentinel)

(***************************************************************************)
(* json_utils.py.  A raw response is a sequence of tokens, each a sequence *)
(* of characters: a bracket, a brace, a comma, a colon or a white-space    *)
(* character on its own, a string literal between double quotes, a number  *)
(* or a bare word.  No token of more than one character holds a bracket, a *)
(* brace or a comma, so the regular expressions of json_utils.py, find()   *)
(* and count() see the same text token by token as character by character. *)
(***************************************************************************)
LB == <<"[">>

RB == <<"]">>

LC == <<"{">>

RC == <<"}">>

COMMA == <<",">>

COLON == <<":">>

NL == <<"\n">>

\* what \s and str.strip() take for white space
WsTokens == {<<" ">>, <<"\n">>, <<"\t">>}

\* the default stop_token of extract_json_from_response
STOP_TOKEN == <<"<","/","E","N","D","_","J","S","O","N",">">>

\* the tokens at the positions outside D, in order
Without(toks, D) ==
    LET Outside(p) == p[1] \notin D
        kept == SelectSeq([i \in 1..Len(toks) |-> <<i, toks[i]>>], Outside)
    IN [k \in 1..Len(kept) |-> kept[k][2]]

\* the first position after i that holds no white space (Len(toks) + 1 if none)
NextNonWs(toks, i) == Min({j \in (i + 1)..(Len(toks) + 1) : j = Len(toks) + 1 \/ toks[j] \notin WsTokens})

\* a match of ,\s*([}\]]) starts at i
CommaBeforeClose(toks, i) == toks[i] = COMMA /\ NextNonWs(toks, i) <= Len(toks) /\ toks[NextNonWs(toks, i)] \in {RC, RB}

\* the last position before i that holds no white space (0 if none)
PrevNonWs(toks, i) == Max({0} \cup {j \in 1..(i - 1) : toks[j] \notin WsTokens})

\* line 11: re.sub(r',\s*([}\]])', r'\1', text): the comma of a match and the white
\* space behind it go
DropTrailingCommas(toks) ==
    Without(toks, {j \in 1..Len(toks) : IF toks[j] = COMMA THEN CommaBeforeClose(toks, j)
                                        ELSE toks[j] \in WsTokens /\ PrevNonWs(toks, j) > 0 /\ CommaBeforeClose(toks, PrevNonWs(toks, j))})

\* a match of }\s*{ starts at i
BraceBeforeOpen(toks, i) == toks[i] = RC /\ NextNonWs(toks, i) <= Len(toks) /\ toks[NextNonWs(toks, i)] = LC

\* t with a comma behind each position of `closes`
CommaBehind(t, closes) ==
    LET At(i) == i + Cardinality({p \in closes : p < i})
    IN [k \in 1..(Len(t) + Cardinality(closes)) |-> IF \E i \in 1..Len(t) : At(i) = k THEN t[CHOOSE i \in 1..Len(t) : At(i) = k] ELSE COMMA]

\* a comma is put after every } that is followed by {
CommaAfter(t) == CHOOSE r \in {CommaBehind(t, closes) : closes \in {{p \in 1..(Len(t) - 1) : t[p] = RC /\ t[p + 1] = LC}}} : TRUE

\* line 12: re.sub(r'}\s*{', '},{', text): the white space of a match goes
JoinObjects(toks) ==
    CHOOSE r \in {CommaAfter(t) : t \in {Without(toks, {j \in 1..Len(toks) : toks[j] \in WsTokens /\ PrevNonWs(toks, j) > 0 /\ BraceBeforeOpen(toks, PrevNonWs(toks, j))})}} : TRUE

\* text.count(t) for a one-character t: the tokens that are t, and the occurrences of
\* the character inside longer tokens (str.count does not know string literals)
Count(toks, t) ==
    Cardinality({i \in 1..Len(toks) : toks[i] = t})
    + Cardinality(UNION {{<<i, k>> : k \in {m \in 1..Len(toks[i]) : toks[i][m] = t[1]}} : i \in {j \in 1..Len(toks) : Len(toks[j]) > 1}})

Repeat(t, n) == [i \in 1..n |-> t]

\* lines 13-18: the braces, then the brackets, that are still open are closed at the end
CloseOpen(toks) ==
    LET braces == IF Count(toks, LC) > Count(toks, RC) THEN Repeat(RC, Count(toks, LC) - Count(toks, RC)) ELSE <<>>
        brackets == IF Count(toks, LB) > Count(toks, RB) THEN Repeat(RB, Count(toks, LB) - Count(toks, RB)) ELSE <<>>
    IN toks \o braces \o brackets

\* text.strip()
StripWs(toks) ==
    LET keep == {i \in 1..Len(toks) : toks[i] \notin WsTokens}
    IN IF keep = {} THEN <<>> ELSE SubSeq(toks, Min(keep), Max(keep))

\* lines 19-22: a lone object is put into a list
WrapObject(cleaned) == IF cleaned # <<>> /\ cleaned[1] = LC /\ cleaned[Len(cleaned)] = RC THEN <<LB>> \o cleaned \o <<RB>> ELSE cleaned

\* repair_json(text)
repair_json(text) ==
    CHOOSE r \in {WrapObject(StripWs(t3)) : t3 \in {CloseOpen(t2) : t2 \in {JoinObjects(t1) : t1 \in {DropTrailingCommas(text)}}}} : TRUE

\* text.find(t), counted from 1; Len(toks) + 1 when t is absent
FirstIdx(toks, t) == Min({i \in 1..(Len(toks) + 1) : i = Len(toks) + 1 \/ toks[i] = t})

\* text.rfind(t), counted from 1; 0 when t is absent
LastIdx(toks, t) == Max({0} \cup {i \in 1..Len(toks) : toks[i] = t})

\* the text from the first `open` to the last `close` behind it, or nothing
Span(toks, open, close) ==
    IF LastIdx(toks, close) > FirstIdx(toks, open) THEN SubSeq(toks, FirstIdx(toks, open), LastIdx(toks, close)) ELSE <<>>

\* the choice of extract_json_from_response on the text without its stop tokens
ExtractSpan(t) ==
    IF Span(t, LB, RB) # <<>> THEN Span(t, LB, RB)
    ELSE IF Span(t, LC, RC) # <<>> THEN Span(t, LC, RC)
    ELSE t

\* extract_json_from_response(text)
extract_json_from_response(text) ==
    CHOOSE r \in {ExtractSpan(t) : t \in {Without(text, {i \in 1..Len(text) : text[i] = STOP_TOKEN})}} : TRUE

\* aggressive_json_extraction(raw_text)
aggressive_json_extraction(raw_text) ==
    IF Span(raw_text, LB, RB) # <<>> THEN repair_json(Span(raw_text, LB, RB))
    ELSE IF Span(raw_text, LC, RC) # <<>> THEN repair_json(Span(raw_text, LC, RC))
    ELSE <<LB, RB>>

(***************************************************************************)
(* json.loads on a token sequence.  A parsed value is a record: t is its   *)
(* Python type, s the characters of a string, number or literal, items the *)
(* elements of a list or the values of a dict, keys the keys of a dict.    *)
(***************************************************************************)
JStr(s) == [t |-> "str", s |-> s, items |-> <<>>, keys |-> <<>>]

JNum(s) == [t |-> "num", s |-> s, items |-> <<>>, keys |-> <<>>]

JLit(s) == [t |-> "lit", s |-> s, items |-> <<>>, keys |-> <<>>]

JList(items) == [t |-> "list", s |-> <<>>, items |-> items, keys |-> <<>>]

JDict(keys, vals) == [t |-> "dict", s |-> <<>>, items |-> vals, keys |-> keys]

\* a string literal without escapes
IsStringTok(tok) ==
    /\ Len(tok) >= 2 /\ tok[1] = "\"" /\ tok[Len(tok)] = "\""
    /\ \A i \in 2..(Len(tok) - 1) : tok[i] \notin {"\"", "\\", "\n", "\t"}

\* an integer literal
IsNumberTok(tok) == tok # <<>> /\ (\A i \in 1..Len(tok) : IsDigit(tok[i])) /\ (Len(tok) = 1 \/ tok[1] # "0")

JsonLiterals == {<<"t","r","u","e">>, <<"f","a","l","s","e">>, <<"n","u","l","l">>, <<"N","a","N">>, <<"I","n","f","i","n","i","t","y">>}

Unquote(tok) == SubSeq(tok, 2, Len(tok) - 1)

Parsed(val, next) == [ok |-> TRUE, val |-> val, next |-> next]

\* json.JSONDecodeError
NotParsed == [ok |-> FALSE, val |-> JLit(<<>>), next |-> 0]

\* the first position from i on that holds no white space
SkipWs(toks, i) == Min({j \in i..(Len(toks) + 1) : j = Len(toks) + 1 \/ toks[j] \notin WsTokens})

IsAt(toks, i, t) == i <= Len(toks) /\ toks[i] = t

RECURSIVE ParseValue(_, _), ParseItems(_, _, _), AfterItem(_, _, _), ParseMembers(_, _, _, _), AfterMember(_, _, _, _, _)
\* the value that starts at the first non-blank position from i on
ParseValue(toks, i) ==
    LET j == SkipWs(toks, i)
    IN IF j > Len(toks) THEN NotParsed
       ELSE IF toks[j] = LB
            THEN IF IsAt(toks, SkipWs(toks, j + 1), RB) THEN Parsed(JList(<<>>), SkipWs(toks, j + 1) + 1) ELSE ParseItems(toks, j + 1, <<>>)
       ELSE IF toks[j] = LC
            THEN IF IsAt(toks, SkipWs(toks, j + 1), RC) THEN Parsed(JDict(<<>>, <<>>), SkipWs(toks, j + 1) + 1) ELSE ParseMembers(toks, j + 1, <<>>, <<>>)
       ELSE IF IsStringTok(toks[j]) THEN Parsed(JStr(Unquote(toks[j])), j + 1)
       ELSE IF IsNumberTok(toks[j]) THEN Parsed(JNum(toks[j]), j + 1)
       ELSE IF toks[j] \in JsonLiterals THEN Parsed(JLit(toks[j]), j + 1)
       ELSE NotParsed

\* the elements of a list from i on, acc being the elements read so far
ParseItems(toks, i, acc) == CHOOSE x \in {AfterItem(toks, acc, r) : r \in {ParseValue(toks, i)}} : TRUE

AfterItem(toks, acc, r) ==
    IF ~r.ok THEN NotParsed
    ELSE IF IsAt(toks, SkipWs(toks, r.next), COMMA) THEN ParseItems(toks, SkipWs(toks, r.next) + 1, Append(acc, r.val))
    ELSE IF IsAt(toks, SkipWs(toks, r.next), RB) THEN Parsed(JList(Append(acc, r.val)), SkipWs(toks, r.next) + 1)
    ELSE NotParsed

\* the members of an object from i on: a key, a colon, a value
ParseMembers(toks, i, keys, vals) ==
    LET j == SkipWs(toks, i)
    IN IF j <= Len(toks) /\ IsStringTok(toks[j]) /\ IsAt(toks, SkipWs(toks, j + 1), COLON)
       THEN CHOOSE x \in {AfterMember(toks, keys, vals, Unquote(toks[j]), r) : r \in {ParseValue(toks, SkipWs(toks, j + 1) + 1)}} : TRUE
       ELSE NotParsed

AfterMember(toks, keys, vals, key, r) ==
    IF ~r.ok THEN NotParsed
    ELSE IF IsAt(toks, SkipWs(toks, r.next), COMMA) THEN ParseMembers(toks, SkipWs(toks, r.next) + 1, Append(keys, key), Append(vals, r.val))
    ELSE IF IsAt(toks, SkipWs(toks, r.next), RC) THEN Parsed(JDict(Append(keys, key), Append(vals, r.val)), SkipWs(toks, r.next) + 1)
    ELSE NotParsed

\* one value and nothing but white space behind it
WholeText(toks, r) == IF r.ok /\ SkipWs(toks, r.next) > Len(toks) THEN [ok |-> TRUE, val |-> r.val] ELSE [ok |-> FALSE, val |-> JLit(<<>>)]

\* json.loads(text): ok is FALSE where Python raises json.JSONDecodeError
json_loads(text) == CHOOSE x \in {WholeText(text, r) : r \in {ParseValue(text, 1)}} : TRUE

IsDictVal(v) == v.t = "dict"

\* lines 58-63: the objects one candidate of the secondary pass adds
ObjectsOf(parsed) ==
    IF ~parsed.ok THEN <<>>
    ELSE IF parsed.val.t = "dict" THEN <<parsed.val>>
    ELSE IF parsed.val.t = "list" THEN SelectSeq(parsed.val.items, IsDictVal)
    ELSE <<>>

RECURSIVE SecondaryFrom(_, _, _), SecondaryNext(_, _, _)
\* the loop of lines 56-67 from position p on, objects being the list so far
SecondaryFrom(raw_text, p, objects) ==
    LET opens == {a \in p..Len(raw_text) : raw_text[a] = LC /\ \E b \in (a + 1)..Len(raw_text) : raw_text[b] = RC}
        Close(a) == Min({b \in (a + 1)..Len(raw_text) : raw_text[b] = RC})
    IN IF opens = {} THEN objects
       ELSE CHOOSE x \in {SecondaryNext(raw_text, b + 1, objects \o found) : b \in {Close(Min(opens))}, found \in {ObjectsOf(json_loads(repair_json(SubSeq(raw_text, Min(opens), Close(Min(opens))))))}} : TRUE

\* lines 66-67: the loop ends with 10 objects
SecondaryNext(raw_text, p, objects) == IF Len(objects) >= 10 THEN objects ELSE SecondaryFrom(raw_text, p, objects)

\* secondary_json_format_pass(raw_text)
secondary_json_format_pass(raw_text) == SecondaryFrom(raw_text, 1, <<>>)

(***************************************************************************)
(* generate_test_cases.py, lines 209-292: from the parsed response to the  *)
(* list of test-case dicts.  A dict becomes a record of the keys the       *)
(* pipeline reads, an absent key being the empty value; the values of      *)
(* these keys are strings (test_steps: a string or a list of strings).     *)
(***************************************************************************)
K_test_cases == <<"t","e","s","t","_","c","a","s","e","s">>

K_grounded_in == <<"g","r","o","u","n","d","e","d","_","i","n">>

K_test_type == <<"t","e","s","t","_","t","y","p","e">>

K_priority == <<"p","r","i","o","r","i","t","y">>

HasKey(v, key) == \E i \in 1..Len(v.keys) : v.keys[i] = key

\* v[key]; of two members with the same key json.loads keeps the last
Lookup(v, key) == IF HasKey(v, key) THEN v.items[Max({i \in 1..Len(v.keys) : v.keys[i] = key})] ELSE JLit(<<>>)

TextOf(v, key) == IF Lookup(v, key).t = "str" THEN Lookup(v, key).s ELSE <<>>

\* the strings the pipeline compares test_type and priority with
AtomOf(chars) ==
    CASE chars = <<>> -> ""
      [] chars = <<"p","o","s","i","t","i","v","e">> -> "positive"
      [] chars = <<"n","e","g","a","t","i","v","e">> -> "negative"
      [] chars = <<"b","o","u","n","d","a","r","y">> -> "boundary"
      [] chars = <<"e","d","g","e","_","c","a","s","e">> -> "edge_case"
      [] chars = <<"h","i","g","h">> -> "high"
      [] chars = <<"m","e","d","i","u","m">> -> "medium"
      [] chars = <<"l","o","w">> -> "low"
      [] OTHER -> "other"

StringsOf(list) == [i \in 1..Len(list) |-> list[i].s]

\* a test-case dict as a record
CaseOf(v) ==
    [test_id |-> TextOf(v, F_test_id), feature |-> TextOf(v, F_feature), test_scenario |-> TextOf(v, F_test_scenario),
     test_steps |-> IF Lookup(v, F_test_steps).t = "list" THEN StringsOf(Lookup(v, F_test_steps).items)
                    ELSE IF Lookup(v, F_test_steps).t = "str" THEN <<Lookup(v, F_test_steps).s>> ELSE <<>>,
     steps_is_list |-> Lookup(v, F_test_steps).t # "str",
     expected_result |-> TextOf(v, F_expected_result), test_type |-> AtomOf(TextOf(v, K_test_type)), priority |-> AtomOf(TextOf(v, K_priority)),
     grounded_in |-> TextOf(v, K_grounded_in),
     action |-> "", hallucination_warning |-> <<>>, needs_review |-> FALSE, quality_score |-> -1, score_rounds_down |-> FALSE, fallback_synthesized |-> FALSE]

StructChars == {"[", "]", "{", "}", ",", ":", " ", "\n", "\t"}

\* the end of the token that starts at i with a character outside StructChars
WordEnd(s, i) == Min({m \in (i + 1)..(Len(s) + 1) : m = Len(s) + 1 \/ s[m] \in StructChars})

RECURSIVE TokensFrom(_, _)
\* the tokens of a text given by its characters, from position i on
TokensFrom(s, i) ==
    IF i > Len(s) THEN <<>>
    ELSE IF s[i] \in StructChars THEN <<<<s[i]>>>> \o TokensFrom(s, i + 1)
    ELSE <<SubSeq(s, i, WordEnd(s, i) - 1)>> \o TokensFrom(s, WordEnd(s, i))

Bracketed(s) == s # <<>> /\ ((s[1] = "[" /\ s[Len(s)] = "]") \/ (s[1] = "{" /\ s[Len(s)] = "}"))

Braced(s) == s # <<>> /\ s[1] = "{" /\ s[Len(s)] = "}"

\* lines 224-229 on the result of json.loads(stripped)
ParsedCases(parsed) ==
    IF ~parsed.ok THEN <<>>
    ELSE IF parsed.val.t = "list" THEN parsed.val.items
    ELSE IF parsed.val.t = "dict" THEN <<parsed.val>>
    ELSE <<>>

\* iterating over response_json["test_cases"]: only a list or a dict can hold a dict or a
\* string that is kept, a string gives its characters, anything else has no len()
Iterated(v) ==
    IF v.t = "list" THEN [raises |-> FALSE, cases |-> v.items]
    ELSE IF v.t = "dict" THEN [raises |-> FALSE, cases |-> [i \in 1..Len(v.keys) |-> JStr(v.keys[i])]]
    ELSE IF v.t = "str" THEN [raises |-> FALSE, cases |-> [i \in 1..Len(v.s) |-> JStr(<<v.s[i]>>)]]
    ELSE [raises |-> TRUE, cases |-> <<>>]

\* lines 209-238: test_cases as the shape of response_json gives it
CasesOfShape(response_json) ==
    IF response_json.t = "list" THEN [raises |-> FALSE, cases |-> response_json.items]
    ELSE IF response_json.t = "dict"
         THEN IF HasKey(response_json, K_test_cases) THEN Iterated(Lookup(response_json, K_test_cases))
              ELSE IF Len(response_json.keys) > 0 THEN [raises |-> FALSE, cases |-> <<response_json>>]
              ELSE [raises |-> FALSE, cases |-> <<>>]
    ELSE IF response_json.t = "str"
         THEN IF Bracketed(strip(response_json.s))
              THEN [raises |-> FALSE, cases |-> ParsedCases(json_loads(TokensFrom(strip(response_json.s), 1)))]
              ELSE [raises |-> FALSE, cases |-> <<>>]
    ELSE [raises |-> FALSE, cases |-> <<>>]

\* lines 250-256: a string item that holds an object
ConvertedString(parsed) == IF parsed.ok /\ parsed.val.t = "dict" THEN <<CaseOf(parsed.val)>> ELSE <<>>

\* lines 243-264: what one item adds to normalized_cases
NormalizedItem(tc) ==
    IF tc.t = "dict" THEN <<CaseOf(tc)>>
    ELSE IF tc.t = "str" /\ Braced(strip(tc.s)) THEN ConvertedString(json_loads(repair_json(TokensFrom(strip(tc.s), 1))))
    ELSE <<>>

\* lines 267-271: steps given as one string are split
SplitStringSteps(tc) ==
    IF tc.steps_is_list THEN tc
    ELSE [tc EXCEPT !.steps_is_list = TRUE,
                    !.test_steps = IF SplitSteps(tc.test_steps[1], {"\n", ";", ">", "|"}) = <<>> THEN DefaultSteps
                                   ELSE Take(SplitSteps(tc.test_steps[1], {"\n", ";", ">", "|"}), 6)]

\* lines 242-271
NormalizedCases(items) == [i \in 1..Len(Flatten([k \in 1..Len(items) |-> NormalizedItem(items[k])])) |-> SplitStringSteps(Flatten([k \in 1..Len(items) |-> NormalizedItem(items[k])])[i])]

CasesOf(objects) == [i \in 1..Len(objects) |-> CaseOf(objects[i])]

\* lines 277-287: the dicts of a second aggressive extraction
FallbackCases(parsed) ==
    IF ~parsed.ok THEN <<>>
    ELSE IF parsed.val.t = "list" THEN CasesOf(SelectSeq(parsed.val.items, IsDictVal))
    ELSE IF parsed.val.t = "dict" THEN <<CaseOf(parsed.val)>>
    ELSE <<>>

\* lines 289-292: the secondary pass where the second extraction gave nothing
FallbackOrSecondary(fallback, raw_text) == IF fallback # <<>> THEN fallback ELSE CasesOf(secondary_json_format_pass(raw_text))

\* lines 275-292 on the list the normalisation left
ExtractedCases(normalized, raw_text) ==
    IF normalized # <<>> THEN normalized
    ELSE CHOOSE r \in {FallbackOrSecondary(fallback, raw_text) : fallback \in {FallbackCases(json_loads(aggressive_json_extraction(raw_text)))}} : TRUE

\* lines 186-188: the aggressive extraction where the strict parse failed
StrictOrAggressive(strict, raw_text) == IF strict.ok THEN strict ELSE json_loads(aggressive_json_extraction(raw_text))

\* lines 179-191: the strict parse of the repaired extract, then the aggressive extraction
response_json(raw_text) ==
    CHOOSE r \in {StrictOrAggressive(strict, raw_text) : strict \in {json_loads(repair_json(extract_json_from_response(raw_text)))}} : TRUE

(***************************************************************************)
(* generate_test_cases.py, lines 294-376: the semantic fallback            *)
(***************************************************************************)
NonEmpty(x) == x # <<>>

\* raw_response.splitlines(), each line stripped, the empty ones left out
RawLines(raw_text) ==
    LET IsCut(i) == i = 0 \/ i = Len(raw_text) + 1 \/ raw_text[i] = NL
        cuts == SelectSeq([k \in 1..(Len(raw_text) + 2) |-> k - 1], IsCut)
    IN SelectSeq([k \in 1..(Len(cuts) - 1) |-> strip(Flatten(SubSeq(raw_text, cuts[k] + 1, cuts[k + 1] - 1)))], NonEmpty)

\* semantic_matcher.py:322: is_verification_step answers without the embedder
LiteralCheck(ln) == Contains(lower(ln), <<"c","h","e","c","k"," ","i","f">>) \/ Contains(lower(ln), <<"c","h","e","c","k"," ","t","h","a","t">>) \/ Contains(lower(ln), <<"c","h","e","c","k"," ","w","h","e","t","h","e","r">>)

\* line 329: re.sub(r"\.\.\.$", "", ln)
WithoutEllipsis(ln) ==
    IF Len(ln) >= 3 /\ SubSeq(ln, Len(ln) - 2, Len(ln)) = <<".",".",".">> THEN SubSeq(ln, 1, Len(ln) - 3) ELSE ln

\* line 330: re.sub(r"^(User\s+)", "", cleaned, flags=re.IGNORECASE)
WithoutUser(ln) ==
    IF Len(ln) >= 5 /\ lower(SubSeq(ln, 1, 4)) = <<"u","s","e","r">> /\ IsSpace(ln[5]) THEN SubSeq(ln, RunEnd(ln, 5, SpaceSet), Len(ln)) ELSE ln

\* lines 321-338: the steps of the synthesized case, `accepted` being the lines the
\* embedder takes for a verification or an action
StepLines(raw_text, accepted) ==
    LET lines == RawLines(raw_text)
        IsStep(i) == i \in accepted \/ LiteralCheck(lines[i])
        kept == SelectSeq([i \in 1..Len(lines) |-> i], IsStep)
    IN IF kept = <<>> THEN <<<<"N","a","v","i","g","a","t","e"," ","t","o"," ","t","h","e"," ","a","p","p","l","i","c","a","t","i","o","n"," ","p","a","g","e">>, <<"C","o","m","p","l","e","t","e"," ","t","h","e"," ","r","e","q","u","i","r","e","d"," ","f","o","r","m"," ","f","i","e","l","d","s">>>>
       ELSE Take([k \in 1..Len(kept) |-> WithoutUser(WithoutEllipsis(lines[kept[k]]))], 8)

\* lines 340-375 for an empty used_chunks
Synthesized(user_prompt, step_lines) ==
    [test_id |-> <<"T","C","-","0","0","1">>, feature |-> <<"F","o","r","m"," ","V","a","l","i","d","a","t","i","o","n">>, test_scenario |-> Take(strip(user_prompt), 160),
     test_steps |-> step_lines, steps_is_list |-> TRUE,
     expected_result |-> <<"F","o","r","m"," ","s","u","b","m","i","s","s","i","o","n"," ","c","o","m","p","l","e","t","e","s"," ","s","u","c","c","e","s","s","f","u","l","l","y"," ","w","i","t","h"," ","e","x","p","e","c","t","e","d"," ","b","e","h","a","v","i","o","r">>, test_type |-> "positive", priority |-> "high",
     grounded_in |-> <<"u","n","k","n","o","w","n">>,
     action |-> "", hallucination_warning |-> <<>>, needs_review |-> TRUE, quality_score |-> -1, score_rounds_down |-> FALSE, fallback_synthesized |-> TRUE]

(***************************************************************************)
(* verification.py is not part of the sources.  spec.md describes the pass *)
(* as one that "re-applies drop semantics; anything marked dropped here is *)
(* removed": the cases whose content carries a fabricated value are marked.*)
(***************************************************************************)
multi_pass_verification(cases, chunks) ==
    [i \in 1..Len(cases) |-> IF Fabricated(cases[i], ContextText(chunks)) # <<>> THEN [cases[i] EXCEPT !.action = "drop"] ELSE cases[i]]

\* spec.md says of the pass only that it "may additionally drop cases": the sets of
\* positions it may mark, of at most MaxVerificationDrops cases
MaxVerificationDrops == 1

VerificationMarks(cases) == {marks \in SUBSET (1..Len(cases)) : Cardinality(marks) <= MaxVerificationDrops}

\* the cases with _action = "drop" on the marked ones
MarkedDropped(cases, marks) == [i \in 1..Len(cases) |-> IF i \in marks THEN [cases[i] EXCEPT !.action = "drop"] ELSE cases[i]]

NotDropped(tc) == tc.action # "drop"

\* generate_test_cases.py, lines 415-418
VerifiedCases(cases, chunks) == SelectSeq(multi_pass_verification(cases, chunks), NotDropped)

(***************************************************************************)
(* generate_test_cases.py, lines 427-517: the quality filter.  Scores are  *)
(* in units of 0.0001; the component scores are in hundredths.             *)
(***************************************************************************)
\* re.search(r'\$\d+', text)
HasPrice(text) == \E i \in 1..(Len(text) - 1) : text[i] = "$" /\ IsDigit(text[i + 1])

\* re.search(r'\d+%', text)
HasPercent(text) == \E i \in 1..(Len(text) - 1) : IsDigit(text[i]) /\ text[i + 1] = "%"

\* re.search(r'\b[A-Z]{4,}\b', text)
HasCapsWord(text) ==
    \E i \in 1..Len(text) :
        /\ IsUpper(text[i]) /\ (i = 1 \/ ~IsWordChar(text[i - 1]))
        /\ RunEnd(text, i, UpperSet) - i >= 4
        /\ (RunEnd(text, i, UpperSet) > Len(text) \/ ~IsWordChar(text[RunEnd(text, i, UpperSet)]))

generic_phrases == {<<"a","s"," ","e","x","p","e","c","t","e","d">>, <<"c","h","e","c","k"," ","r","e","s","u","l","t">>, <<"v","e","r","i","f","y">>, <<"e","x","e","c","u","t","e">>, <<"s","t","e","p"," ","1">>}

penalty_count(expected) == Cardinality({phrase \in generic_phrases : Contains(lower(expected), phrase)})

RECURSIVE SumLen(_)
\* sum(len(str(s)) for s in steps)
SumLen(steps) == IF steps = <<>> THEN 0 ELSE Len(Head(steps)) + SumLen(Tail(steps))

UngroundedNames == {<<"i","n","f","e","r","e","n","c","e">>, <<"g","e","n","e","r","a","l">>, <<"d","o","c","u","m","e","n","t",".","t","x","t">>, <<"n","/","a">>, <<>>}

length_score(tc) == 100 - (IF Len(tc.test_scenario) < 30 THEN 30 ELSE 0) - (IF Len(tc.expected_result) < 20 THEN 20 ELSE 0)

specificity_score(tc) ==
    Min({100, 50 + (IF HasPrice(tc.test_scenario \o tc.expected_result) THEN 20 ELSE 0)
                 + (IF HasPercent(tc.test_scenario \o tc.expected_result) THEN 10 ELSE 0)
                 + (IF HasCapsWord(tc.test_scenario \o tc.expected_result) THEN 20 ELSE 0)})

generic_score(tc) == Max({0, 100 - 15 * penalty_count(tc.expected_result)})

step_score(tc) ==
    IF tc.steps_is_list /\ Len(tc.test_steps) > 0
    THEN IF SumLen(tc.test_steps) > 30 * Len(tc.test_steps) THEN 100 ELSE IF SumLen(tc.test_steps) > 15 * Len(tc.test_steps) THEN 75 ELSE 50
    ELSE 50

\* lines 466-469 with the two scores exchanged
grounding_score_Inverted(tc) == IF lower(tc.grounded_in) \in UngroundedNames THEN 100 ELSE 30

\* lines 466-469
grounding_score(tc) == IF lower(tc.grounded_in) \in UngroundedNames THEN 30 ELSE 100

\* lines 473-476: the weighted sum, as the exact number
calculate_quality_score(tc) ==
    20 * length_score(tc) + 25 * specificity_score(tc) + 20 * generic_score(tc) + 15 * step_score(tc) + 20 * grounding_score(tc)

\* the inputs (scenario short, expected short, price, percentage, capitals, penalties, step
\* score, grounding score) for which the float sum of lines 430-474 falls just below an
\* exact 0.5 or 0.65
FloatRoundsBelow ==
    {<<FALSE, FALSE, FALSE, FALSE, TRUE, 2, 50, 30>>,
     <<FALSE, FALSE, TRUE, FALSE, FALSE, 2, 50, 30>>,
     <<TRUE, FALSE, FALSE, FALSE, TRUE, 0, 50, 30>>,
     <<TRUE, FALSE, FALSE, FALSE, TRUE, 5, 50, 30>>,
     <<TRUE, FALSE, TRUE, FALSE, FALSE, 0, 50, 30>>,
     <<TRUE, FALSE, TRUE, FALSE, FALSE, 5, 50, 30>>,
     <<TRUE, FALSE, TRUE, TRUE, TRUE, 5, 100, 30>>,
     <<FALSE, TRUE, TRUE, TRUE, FALSE, 4, 100, 30>>,
     <<TRUE, TRUE, FALSE, TRUE, FALSE, 5, 100, 100>>,
     <<TRUE, TRUE, FALSE, TRUE, TRUE, 2, 100, 30>>,
     <<TRUE, TRUE, TRUE, FALSE, TRUE, 5, 50, 100>>,
     <<TRUE, TRUE, TRUE, TRUE, FALSE, 2, 100, 30>>}

QualityInputs(tc) ==
    <<Len(tc.test_scenario) < 30, Len(tc.expected_result) < 20, HasPrice(tc.test_scenario \o tc.expected_result),
      HasPercent(tc.test_scenario \o tc.expected_result), HasCapsWord(tc.test_scenario \o tc.expected_result),
      penalty_count(tc.expected_result), step_score(tc), grounding_score(tc)>>

\* quality_score < threshold, for the thresholds 0.5 and 0.65 of lines 485 and 495
ScoreBelow(tc, threshold) ==
    \/ calculate_quality_score(tc) < threshold
    \/ calculate_quality_score(tc) = threshold /\ QualityInputs(tc) \in FloatRoundsBelow

ToUpper == [c \in LowerSet |-> UpperChars[CHOOSE i \in DOMAIN LowerChars : LowerChars[i] = c]]

IsLetter(c) == c \in UpperSet \cup LowerSet

\* str.title()
title(s) ==
    [i \in 1..Len(s) |-> IF ~IsLetter(s[i]) THEN s[i]
                         ELSE IF i = 1 \/ ~IsLetter(s[i - 1]) THEN (IF s[i] \in LowerSet THEN ToUpper[s[i]] ELSE s[i])
                         ELSE (IF s[i] \in UpperSet THEN ToLower[s[i]] ELSE s[i])]

RECURSIVE RemoveAll(_, _)
\* s.replace(sub, '')
RemoveAll(s, sub) ==
    LET starts == {k \in 1..Len(s) : StartsAt(s, k, sub)}
    IN IF starts = {} THEN s ELSE SubSeq(s, 1, Min(starts) - 1) \o RemoveAll(SubSeq(s, Min(starts) + Len(sub), Len(s)), sub)

\* s.split('/')[-1]
AfterLastSlash(s) == SubSeq(s, Max({0} \cup {i \in 1..Len(s) : s[i] = "/"}) + 1, Len(s))

\* line 506
DocName(grounded_in) == RemoveAll(RemoveAll(RemoveAll(RemoveAll(AfterLastSlash(grounded_in), <<".","m","d">>), <<".","t","x","t">>), <<".","h","t","m","l">>), <<".","j","s","o","n">>)

\* lines 504-510 on the case whose grounded_in is settled
BackfillFeature(tc) ==
    IF lower(strip(tc.feature)) \in {<<"g","e","n","e","r","a","l">>, <<"n","/","a">>, <<"f","e","a","t","u","r","e">>, <<"t","e","s","t">>, <<>>}
    THEN [tc EXCEPT !.feature = IF DocName(tc.grounded_in) # <<>> /\ lower(DocName(tc.grounded_in)) # <<"i","n","f","e","r","e","n","c","e">>
                                THEN title([i \in 1..Len(DocName(tc.grounded_in)) |-> IF DocName(tc.grounded_in)[i] = "_" THEN " " ELSE DocName(tc.grounded_in)[i]]) \o <<" ","V","a","l","i","d","a","t","i","o","n">>
                                ELSE <<"G","e","n","e","r","a","l"," ","V","a","l","i","d","a","t","i","o","n">>]
    ELSE tc

\* lines 495-502
FlagAndGround(tc, chunks) ==
    [tc EXCEPT !.needs_review = IF ScoreBelow(tc, 6500) THEN TRUE ELSE @,
               !.grounded_in = IF lower(strip(@)) \in UngroundedNames /\ chunks # <<>> THEN chunks[1].source ELSE @]

\* lines 481-482: _quality_score, kept as the exact number and whether the float lies just
\* below it
Scored(tc) == [tc EXCEPT !.quality_score = calculate_quality_score(tc), !.score_rounds_down = QualityInputs(tc) \in FloatRoundsBelow]

\* tc["_quality_score"] < threshold for the score stored in the case
StoredBelow(tc, threshold) == tc.quality_score < threshold \/ (tc.quality_score = threshold /\ tc.score_rounds_down)

\* line 485 without the comparison: no case is dropped for its score
AboveDropLine_Any(tc) == TRUE

\* line 485
AboveDropLine(tc) == ~ScoreBelow(tc, 5000)

\* line 485
BelowDropLine(tc) == ScoreBelow(tc, 5000)

\* lines 485-491: the test_ids of the cases the quality filter drops
generic_dropped(cases) == [i \in 1..Len(SelectSeq(cases, BelowDropLine)) |-> SelectSeq(cases, BelowDropLine)[i].test_id]

\* lines 478-517
QualityFilter(cases, chunks) ==
    [i \in 1..Len(SelectSeq(cases, AboveDropLine)) |-> BackfillFeature(FlagAndGround(Scored(SelectSeq(cases, AboveDropLine)[i]), chunks))]

(***************************************************************************)
(* validation.py: detect_semantic_duplicates and ensure_unique_test_ids    *)
(***************************************************************************)
\* the place of a character of a lower-case word in Python's string order
CharRank(c) ==
    IF c \in DigitSet THEN CHOOSE d \in 0..9 : <<"0","1","2","3","4","5","6","7","8","9">>[d + 1] = c
    ELSE IF c \in UpperSet THEN 10 + CHOOSE i \in DOMAIN UpperChars : UpperChars[i] = c
    ELSE IF c = "_" THEN 40
    ELSE IF c \in LowerSet THEN 40 + CHOOSE i \in DOMAIN LowerChars : LowerChars[i] = c
    ELSE 100

\* a < b for two strings
LessWord(a, b) ==
    \E i \in 1..(Len(b)) :
        /\ \A k \in 1..(i - 1) : k <= Len(a) /\ a[k] = b[k]
        /\ (i > Len(a) \/ (i <= Len(a) /\ CharRank(a[i]) < CharRank(b[i])))

\* line 87: the words of the scenario and the steps
sig_words(tc) ==
    LET found == Words(lower(tc.test_scenario \o SPACE \o Join(tc.test_steps, SPACE)))
    IN {found[i] : i \in 1..Len(found)}

\* a signature that also tells the cases apart by their test_id
Signature_WithTestId(tc) ==
    LET long == {w \in sig_words(tc) : Len(w) > 4}
    IN {w \in long : Cardinality({v \in long : LessWord(v, w)}) < 25} \cup {tc.test_id}

\* line 88: the first 25, in sorted order, of the words of more than 4 characters
Signature(tc) ==
    LET long == {w \in sig_words(tc) : Len(w) > 4}
    IN {w \in long : Cardinality({v \in long : LessWord(v, w)}) < 25}

\* detect_semantic_duplicates as the set of the indices it returns
detect_semantic_duplicates(cases) == {i \in 1..Len(cases) : \E j \in 1..(i - 1) : Signature(cases[j]) = Signature(cases[i])}

\* generate_test_cases.py, lines 519-522
WithoutDuplicates(cases) == Without(cases, detect_semantic_duplicates(cases))

DecimalDigits == <<"0","1","2","3","4","5","6","7","8","9">>

RECURSIVE Decimal(_)
\* str(n) for n >= 0
Decimal(n) == IF n < 10 THEN <<DecimalDigits[n + 1]>> ELSE Decimal(n \div 10) \o <<DecimalDigits[(n % 10) + 1]>>

\* f'{i:03d}'
ZeroPad3(i) == IF Len(Decimal(i)) < 3 THEN Repeat("0", 3 - Len(Decimal(i))) \o Decimal(i) ELSE Decimal(i)

\* ensure_unique_test_ids with enumerate(test_cases) counting from 0
ensure_unique_test_ids_FromZero(cases) == [i \in 1..Len(cases) |-> [cases[i] EXCEPT !.test_id = <<"T","C","-">> \o ZeroPad3(i - 1)]]

\* ensure_unique_test_ids(test_cases)
ensure_unique_test_ids(cases) == [i \in 1..Len(cases) |-> [cases[i] EXCEPT !.test_id = <<"T","C","-">> \o ZeroPad3(i)]]

\* generate_test_cases.py, lines 392-525: validation loop, verification, quality filter,
\* duplicate removal and renumbering of a case list
ValidationChain(cases, chunks) ==
    CHOOSE r \in {ensure_unique_test_ids(WithoutDuplicates(filtered)) :
                    filtered \in {QualityFilter(verified, chunks) :
                        verified \in {VerifiedCases(validated, chunks) :
                            validated \in {ValidationLoop(cases, chunks).validated_cases}}}} : TRUE

(***************************************************************************)
(* prompt_utils.py                                                         *)
(***************************************************************************)
\* deduplicate_chunks(chunks): the first chunk of every text, texts compared stripped and
\* in lower case
deduplicate_chunks(chunks) ==
    Without(chunks, {i \in 1..Len(chunks) : \E j \in 1..(i - 1) : lower(strip(chunks[j].text)) = lower(strip(chunks[i].text))})

\* estimate_tokens(text)
estimate_tokens(text) == Max({1, Len(text) \div 4})

\* config.py:31 with the default model: 8192 - 1200
AVAILABLE_CONTEXT_TOKENS == 6992

RECURSIVE TokensUpTo(_, _)
\* the tokens of the first n chunks
TokensUpTo(chunks, n) == IF n = 0 THEN 0 ELSE TokensUpTo(chunks, n - 1) + estimate_tokens(chunks[n].text)

\* truncate_context_smart(chunks, max_tokens), the selected chunks
truncate_context_smart(chunks, max_tokens) ==
    SubSeq(chunks, 1, Max({n \in 0..Len(chunks) : TokensUpTo(chunks, n) <= max_tokens}))

(***************************************************************************)
(* Inputs of the pipeline: what a backend may answer                       *)
(***************************************************************************)
\* the text "[]", which the backend returns when it gives up
EmptyList == <<LB, RB>>

Quoted(s) == <<"\"">> \o s \o <<"\"">>

\* "key": "value"
Member(key, value) == <<Quoted(key), COLON, <<" ">>, Quoted(value)>>

\* "test_steps": ["step", ...]
StepsMember(steps) == <<Quoted(F_test_steps), COLON, <<" ">>, LB>> \o Join([i \in 1..Len(steps) |-> <<Quoted(steps[i])>>], <<COMMA>>) \o <<RB>>

ObjectText(members) == <<LC>> \o Join(members, <<COMMA>>) \o <<RC>>

ArrayText(objects) == <<LB>> \o Join(objects, <<COMMA, NL>>) \o <<RB>>

\* a complete test case as a model writes it
CaseText(id, scenario, steps, expected, grounded) ==
    ObjectText(<<Member(F_test_id, id), Member(F_feature, <<"C","h","e","c","k","o","u","t">>), Member(F_test_scenario, scenario), StepsMember(steps),
                 Member(F_expected_result, expected), Member(K_test_type, <<"p","o","s","i","t","i","v","e">>), Member(K_priority, <<"h","i","g","h">>), Member(K_grounded_in, grounded)>>)

ApplySteps == <<<<"E","n","t","e","r"," ","s","a","v","e","1","0"," ","i","n"," ","t","h","e"," ","d","i","s","c","o","u","n","t"," ","f","i","e","l","d">>, <<"C","l","i","c","k"," ","A","p","p","l","y">>>>

\* grounded in the documentation
GoodCase == CaseText(<<"T","C","-","0","0","7">>, <<"A","p","p","l","y"," ","d","i","s","c","o","u","n","t"," ","c","o","d","e"," ","S","A","V","E","1","0"," ","a","t"," ","c","h","e","c","k","o","u","t">>, ApplySteps, <<"O","r","d","e","r"," ","t","o","t","a","l"," ","s","h","o","w","s"," ","1","0","%"," ","o","f","f">>, <<"p","r","o","m","o",".","m","d">>)

\* the same scenario and steps once more
RepeatedCase == CaseText(<<"T","C","-","0","0","7">>, <<"A","p","p","l","y"," ","d","i","s","c","o","u","n","t"," ","c","o","d","e"," ","S","A","V","E","1","0"," ","a","t"," ","c","h","e","c","k","o","u","t">>, ApplySteps, <<"T","h","e"," ","d","i","s","c","o","u","n","t"," ","o","f"," ","1","0","%"," ","i","s"," ","a","p","p","l","i","e","d">>, <<"p","r","o","m","o",".","m","d">>)

\* a code the documentation does not know
FabricatedCase == CaseText(<<"T","C","-","0","0","2">>, <<"A","p","p","l","y"," ","d","i","s","c","o","u","n","t"," ","c","o","d","e"," ","S","A","V","E","2","0"," ","a","t"," ","c","h","e","c","k","o","u","t">>, ApplySteps, <<"O","r","d","e","r"," ","t","o","t","a","l"," ","s","h","o","w","s"," ","1","0","%"," ","o","f","f">>, <<"p","r","o","m","o",".","m","d">>)

\* short and generic
GenericCase == CaseText(<<"T","C","-","0","0","3">>, <<"L","o","g","i","n"," ","w","o","r","k","s">>, <<<<"G","o">>, <<"D","o">>>>, <<"V","e","r","i","f","y"," ","t","h","e"," ","s","t","e","p"," ","1"," ","c","h","e","c","k"," ","r","e","s","u","l","t"," ","a","s"," ","e","x","p","e","c","t","e","d">>, <<"i","n","f","e","r","e","n","c","e">>)

\* steps as one string, no id
StringStepsCase ==
    ObjectText(<<Member(F_test_scenario, <<"R","e","m","o","v","e"," ","t","h","e"," ","d","i","s","c","o","u","n","t"," ","c","o","d","e"," ","f","r","o","m"," ","t","h","e"," ","b","a","s","k","e","t">>), Member(F_test_steps, <<"O","p","e","n"," ","b","a","s","k","e","t",";"," ","R","e","m","o","v","e"," ","c","o","d","e"," ",">"," ","C","o","n","f","i","r","m">>),
                 Member(F_expected_result, <<"O","r","d","e","r"," ","t","o","t","a","l"," ","s","h","o","w","s"," ","n","o"," ","d","i","s","c","o","u","n","t">>)>>)

MixedBatch == ArrayText(<<GoodCase, FabricatedCase, GenericCase, RepeatedCase, StringStepsCase>>)

ScenarioWords == <<<<"l","o","g","i","n">>, <<"l","o","g","o","u","t">>, <<"s","e","a","r","c","h">>, <<"b","a","s","k","e","t">>, <<"c","h","e","c","k","o","u","t">>, <<"p","a","y","m","e","n","t">>, <<"r","e","f","u","n","d">>, <<"i","n","v","o","i","c","e">>, <<"p","r","o","f","i","l","e">>, <<"a","d","d","r","e","s","s">>, <<"v","o","u","c","h","e","r">>>>

\* more cases than the pipeline keeps
LongBatch == ArrayText([i \in 1..Len(ScenarioWords) |-> ObjectText(<<Member(F_test_scenario, ScenarioWords[i])>>)])

NoJsonText == <<<<"n","o","t">>, <<" ">>, <<"j","s","o","n">>, <<" ">>, <<"a","t">>, <<" ">>, <<"a","l","l">>>>

\* the second object does not parse
BrokenBatch == <<LB, LC, Quoted(<<"a">>), COLON, <<"1">>, RC, COMMA, LC, Quoted(<<"b">>), COLON, <<"b","a","d">>, RC, RB>>

\* prose around one object with a trailing comma, and the stop token
ProseObject == <<<<"H","e","r","e">>, COLON, <<" ">>>> \o <<LC>> \o Member(F_test_scenario, <<"A","p","p","l","y"," ","d","i","s","c","o","u","n","t"," ","c","o","d","e"," ","S","A","V","E","1","0"," ","a","t"," ","c","h","e","c","k","o","u","t">>) \o <<COMMA, RC, STOP_TOKEN>>

\* a list without objects in front of an object
ListThenObject == <<LB, <<"1">>, RB, <<" ">>>> \o ObjectText(<<Member(F_test_scenario, <<"A","p","p","l","y"," ","d","i","s","c","o","u","n","t"," ","c","o","d","e"," ","S","A","V","E","1","0"," ","a","t"," ","c","h","e","c","k","o","u","t">>)>>)

\* a complete test case with the test_type and priority the model chose
TypedCaseText(id, scenario, steps, expected, grounded, test_type, priority) ==
    ObjectText(<<Member(F_test_id, id), Member(F_feature, <<"C","h","e","c","k","o","u","t">>), Member(F_test_scenario, scenario), StepsMember(steps),
                 Member(F_expected_result, expected), Member(K_test_type, test_type), Member(K_priority, priority), Member(K_grounded_in, grounded)>>)

\* grounded in the documentation, of type boundary
BoundaryCase == TypedCaseText(<<"T","C","-","0","0","9">>, <<"A","p","p","l","y"," ","d","i","s","c","o","u","n","t"," ","c","o","d","e"," ","S","A","V","E","1","0"," ","a","t"," ","t","h","e"," ","o","r","d","e","r"," ","l","i","m","i","t">>, ApplySteps, <<"O","r","d","e","r"," ","t","o","t","a","l"," ","s","h","o","w","s"," ","1","0","%"," ","o","f","f">>, <<"p","r","o","m","o",".","m","d">>, <<"b","o","u","n","d","a","r","y">>, <<"l","o","w">>)

\* grounded in the documentation, with a type and a priority the schema does not know
UnknownTypeCase == TypedCaseText(<<"T","C","-","0","1","0">>, <<"A","p","p","l","y"," ","d","i","s","c","o","u","n","t"," ","c","o","d","e"," ","S","A","V","E","1","0"," ","t","w","i","c","e"," ","a","t"," ","c","h","e","c","k","o","u","t">>, ApplySteps, <<"O","r","d","e","r"," ","t","o","t","a","l"," ","s","h","o","w","s"," ","1","0","%"," ","o","f","f">>, <<"p","r","o","m","o",".","m","d">>, <<"s","m","o","k","e">>, <<"u","r","g","e","n","t">>)

TypedBatch == ArrayText(<<BoundaryCase, UnknownTypeCase>>)

\* short texts and no grounding: a quality score between 0.5 and 0.65
BorderlineCase == CaseText(<<"T","C","-","0","1","1">>, <<"L","o","g","i","n"," ","w","o","r","k","s">>, <<<<"G","o">>, <<"D","o">>>>, <<"P","a","g","e"," ","o","p","e","n","s">>, <<"i","n","f","e","r","e","n","c","e">>)

\* a score whose exact value is 0.65
RoundedCase == CaseText(<<"T","C","-","0","1","2">>, <<"U","s","e"," ","S","A","V","E"," ","f","o","r"," ","1","0","%"," ","o","f","f">>, <<<<"E","n","t","e","r"," ","s","a","v","e","1","0"," ","i","n"," ","t","h","e"," ","d","i","s","c","o","u","n","t"," ","f","i","e","l","d">>>>, <<"v","e","r","i","f","y"," ","a","s"," ","e","x","p","e","c","t","e","d">>, <<"i","n","f","e","r","e","n","c","e">>)

BorderlineBatch == ArrayText(<<BorderlineCase, RoundedCase>>)

\* the texts generate_test_cases_with_ollama may return
PipelineTexts == {EmptyList, NoJsonText, BrokenBatch, ProseObject, ListThenObject, MixedBatch, LongBatch, TypedBatch, BorderlineBatch}

(***************************************************************************)
(* Spec: one call of generate_test_cases(prompt, retrieved_docs), stage by *)
(* stage (generate_test_cases.py:80-589).                                  *)
(***************************************************************************)
\* the retrieval results of the calls; the third repeats a text
PipelineDocs ==
    {<<>>,
     <<[id |-> 1, text |-> PromoChunk.text, source |-> PromoChunk.source, distance |-> 20]>>,
     <<[id |-> 1, text |-> PromoChunk.text, source |-> PromoChunk.source, distance |-> 20],
       [id |-> 2, text |-> PromoChunk.text, source |-> PromoChunk.source, distance |-> 20]>>,
     <<[id |-> 4, text |-> GiftChunk.text, source |-> GiftChunk.source, distance |-> 250],
       [id |-> 1, text |-> PromoChunk.text, source |-> PromoChunk.source, distance |-> 20],
       [id |-> 3, text |-> RulesText, source |-> RulesSource, distance |-> 0]>>}

\* line 379
MAX_TEST_CASES == 10

\* lines 380-382: the list is cut to its first MAX_TEST_CASES cases
Capped_Never(cases) == cases

Capped(cases) == IF Len(cases) > MAX_TEST_CASES THEN Take(cases, MAX_TEST_CASES) ELSE cases

\* line 93: the request stops at the gate
Aborts_Never(st) == FALSE

Aborts(st) == ~st.should_proceed

\* lines 95-107
AbortPayload(st) == [kind |-> "returned", test_cases |-> <<>>, count |-> 0, provider |-> "none", error |-> st.recommendation, note |-> st.recommendation]

\* lines 194-207
UnparseablePayload ==
    [kind |-> "returned", test_cases |-> <<>>, count |-> 0, provider |-> "ollama", error |-> <<"L","L","M"," ","r","e","t","u","r","n","e","d"," ","u","n","p","a","r","s","e","a","b","l","e"," ","J","S","O","N">>,
     note |-> <<"L","L","M"," ","r","e","s","p","o","n","s","e"," ","c","o","u","l","d"," ","n","o","t"," ","b","e"," ","p","a","r","s","e","d"," ","a","s"," ","J","S","O","N","."," ","S","e","e"," ","l","o","g","s"," ","f","o","r"," ","r","a","w"," ","r","e","s","p","o","n","s","e",".">>]

\* lines 299-311
UnavailablePayload ==
    [kind |-> "returned", test_cases |-> <<>>, count |-> 0, provider |-> "ollama", error |-> <<"L","L","M"," ","o","u","t","p","u","t"," ","u","n","p","a","r","s","e","a","b","l","e"," ","a","n","d"," ","A","I","/","M","L"," ","f","a","l","l","b","a","c","k"," ","u","n","a","v","a","i","l","a","b","l","e">>,
     note |-> <<"C","a","n","n","o","t"," ","s","y","n","t","h","e","s","i","z","e"," ","t","e","s","t"," ","c","a","s","e","s"," ","w","i","t","h","o","u","t"," ","A","I","/","M","L"," ","s","e","r","v","i","c","e","s">>]

\* lines 531-571: the result with the two counts of its metadata
SuccessPayload(cases, dropped, duplicate_indices) ==
    [kind |-> "returned", test_cases |-> cases, count |-> Len(cases), provider |-> "ollama",
     metadata |-> [duplicates_removed |-> Cardinality(duplicate_indices), dropped_cases |-> Len(dropped)]]

\* lines 579-589: any exception leaves as Exception("Test case generation failed: ...")
Raised(cause) == [kind |-> "exception", error |-> cause]

\* line 63: the first 8 hex digits of the md5 of the time and the prompt
request_id(user_prompt) == <<"md5", user_prompt>>

\* logging_utils.py, lines 11-41: one record appended to the log
log_generation_request(log, num_chunks, session_id) ==
    Append(log, [event |-> "generation_request", session_id |-> session_id, num_chunks_used |-> num_chunks])

\* logging_utils.py, lines 43-68: one record appended to the log
log_generation_response(log, cases, dropped_count, session_id) ==
    Append(log, [event |-> "generation_response", session_id |-> session_id, num_test_cases |-> Len(cases), num_dropped |-> dropped_count])

\* lines 579-587: the outer except writes a response record of no cases
LoggedFailure(log, user_prompt) == log_generation_response(log, <<>>, 0, request_id(user_prompt))

Init ==
    /\ pc = "called"
    /\ prompt \in GatePrompts
    /\ retrieved_docs \in PipelineDocs
    /\ matcher_importable \in BOOLEAN
    /\ doc_type_answer \in (IF matcher_importable THEN DocTypeAnswers ELSE {<<>>})
    /\ \E cs \in CorpusStats : DF_MAP = cs.df_map /\ TOTAL_DOCS = cs.total_docs
    /\ used_chunks = <<>> /\ strategy = [none |-> TRUE]
    /\ raw_response = <<>> /\ test_cases = <<>> /\ result = [kind |-> "none"] /\ backend_calls = 0
    /\ AIML_AVAILABLE = matcher_importable /\ zero_cost_answer = FALSE
    /\ LLM_PROVIDER = "ollama" /\ GenIdle /\ LogIdle /\ AuxIdle

\* lines 82-86: deduplicate_chunks, then hybrid_rank_chunks
DedupeAndRank ==
    /\ pc = "called"
    /\ ~RankRaises(deduplicate_chunks(retrieved_docs))
    /\ used_chunks' = hybrid_rank_chunks(deduplicate_chunks(retrieved_docs), prompt)
    /\ pc' = "ranked_docs"
    /\ UNCHANGED <<prompt, retrieved_docs, strategy, raw_response, test_cases, result, backend_calls, envVars, auxVars, genVars, logVars>>

\* lines 86, 579-589: the ImportError of the ranking leaves through the outer except
RankingFails ==
    /\ pc = "called"
    /\ RankRaises(deduplicate_chunks(retrieved_docs))
    /\ result' = Raised("ImportError")
    /\ generation_log' = LoggedFailure(generation_log, prompt)
    /\ pc' = "raised"
    /\ UNCHANGED <<prompt, retrieved_docs, used_chunks, strategy, raw_response, test_cases, backend_calls, envVars, auxVars, genVars, dropped_cases, validating_count>>

\* lines 90-111: the gate, then truncate_context_smart
DecideStrategy ==
    /\ pc = "ranked_docs"
    /\ strategy' = adaptive_test_generation_strategy(used_chunks, prompt)
    /\ IF Aborts(strategy')
       THEN /\ result' = AbortPayload(strategy')
            /\ pc' = "returned"
            /\ UNCHANGED used_chunks
       ELSE /\ used_chunks' = truncate_context_smart(used_chunks, AVAILABLE_CONTEXT_TOKENS)
            /\ pc' = "prompted"
            /\ UNCHANGED result
    /\ UNCHANGED <<prompt, retrieved_docs, raw_response, test_cases, backend_calls, envVars, auxVars, genVars, logVars>>

\* lines 154-177: generate_test_cases_with_ollama returns a text, and the request is logged
CallBackend ==
    /\ pc = "prompted"
    /\ \E text \in PipelineTexts : raw_response' = text
    /\ backend_calls' = backend_calls + 1
    /\ generation_log' = log_generation_request(generation_log, Len(used_chunks), request_id(prompt))
    /\ pc' = "generated"
    /\ UNCHANGED <<prompt, retrieved_docs, used_chunks, strategy, test_cases, result, envVars, auxVars, genVars, dropped_cases, validating_count>>

\* lines 179-236: strict parse, aggressive parse, the shape of the value
ParseResponse ==
    /\ pc = "generated"
    /\ \E parsed \in {response_json(raw_response)} :
         IF ~parsed.ok
         THEN /\ result' = UnparseablePayload
              /\ pc' = "returned"
              /\ UNCHANGED <<test_cases, generation_log>>
         ELSE \E shaped \in {CasesOfShape(parsed.val)} :
                IF shaped.raises
                THEN /\ result' = Raised("TypeError")
                     /\ generation_log' = LoggedFailure(generation_log, prompt)
                     /\ pc' = "raised"
                     /\ UNCHANGED test_cases
                ELSE /\ test_cases' = shaped.cases
                     /\ pc' = "parsed"
                     /\ UNCHANGED <<result, generation_log>>
    /\ UNCHANGED <<prompt, retrieved_docs, used_chunks, strategy, raw_response, backend_calls, envVars, auxVars, genVars, dropped_cases, validating_count>>

\* lines 238-292: normalisation of the items, second aggressive extraction, secondary pass
NormalizeCases ==
    /\ pc = "parsed"
    /\ test_cases' = ExtractedCases(NormalizedCases(test_cases), raw_response)
    /\ pc' = "normalized"
    /\ UNCHANGED <<prompt, retrieved_docs, used_chunks, strategy, raw_response, result, backend_calls, envVars, auxVars, genVars, logVars>>

\* lines 294-376: nothing extracted, so one case is synthesized; line 345 calls lower()
\* on the pair classify_document_type returns
SemanticFallback ==
    /\ pc = "normalized"
    /\ IF test_cases # <<>>
       THEN /\ pc' = "extracted"
            /\ UNCHANGED <<test_cases, result, generation_log>>
       ELSE IF ~AIML_AVAILABLE
       THEN /\ result' = UnavailablePayload
            /\ pc' = "returned"
            /\ UNCHANGED <<test_cases, generation_log>>
       ELSE IF used_chunks # <<>>
       THEN /\ result' = Raised("AttributeError")
            /\ generation_log' = LoggedFailure(generation_log, prompt)
            /\ pc' = "raised"
            /\ UNCHANGED test_cases
       ELSE /\ \E accepted \in SUBSET (1..Len(RawLines(raw_response))) :
                 test_cases' = <<Synthesized(prompt, StepLines(raw_response, accepted))>>
            /\ pc' = "extracted"
            /\ UNCHANGED <<result, generation_log>>
    /\ UNCHANGED <<prompt, retrieved_docs, used_chunks, strategy, raw_response, backend_calls, envVars, auxVars, genVars, dropped_cases, validating_count>>

\* lines 378-409: the first MAX_TEST_CASES cases through validate_test_case_schema and
\* has_verbatim_evidence
ValidateCases ==
    /\ pc = "extracted"
    /\ \E loop \in {ValidationLoop(Capped(test_cases), used_chunks)} :
         /\ test_cases' = loop.validated_cases
         /\ dropped_cases' = loop.dropped_cases
    /\ validating_count' = Len(Capped(test_cases))
    /\ pc' = "validated"
    /\ UNCHANGED <<prompt, retrieved_docs, used_chunks, strategy, raw_response, result, backend_calls, envVars, auxVars, genVars, generation_log>>

\* lines 414-421: multi_pass_verification; the cases it drops are counted for the log
\* message of line 421 only, dropped_cases is left as it is
VerifyCases ==
    /\ pc = "validated"
    /\ \E marks \in VerificationMarks(test_cases) : test_cases' = VerifiedCases(MarkedDropped(test_cases, marks), used_chunks)
    /\ pc' = "verified"
    /\ UNCHANGED <<prompt, retrieved_docs, used_chunks, strategy, raw_response, result, backend_calls, envVars, auxVars, genVars, logVars>>

\* lines 427-517: the quality filter
FilterByQuality ==
    /\ pc = "verified"
    /\ test_cases' = QualityFilter(test_cases, used_chunks)
    /\ dropped_cases' = dropped_cases \o generic_dropped(test_cases)
    /\ pc' = "filtered"
    /\ UNCHANGED <<prompt, retrieved_docs, used_chunks, strategy, raw_response, result, backend_calls, envVars, auxVars, genVars, generation_log, validating_count>>

\* lines 519-577: duplicates out, ids assigned, the result returned
Finish ==
    /\ pc = "filtered"
    /\ test_cases' = ensure_unique_test_ids(WithoutDuplicates(test_cases))
    /\ result' = SuccessPayload(test_cases', dropped_cases, detect_semantic_duplicates(test_cases))
    /\ generation_log' = log_generation_response(generation_log, test_cases', Len(dropped_cases), request_id(prompt))
    /\ pc' = "returned"
    /\ UNCHANGED <<prompt, retrieved_docs, used_chunks, strategy, raw_response, backend_calls, envVars, auxVars, genVars, dropped_cases, validating_count>>

Next ==
    \/ DedupeAndRank
    \/ RankingFails
    \/ DecideStrategy
    \/ CallBackend
    \/ ParseResponse
    \/ NormalizeCases
    \/ SemanticFallback
    \/ ValidateCases
    \/ VerifyCases
    \/ FilterByQuality
    \/ Finish

Spec == Init /\ [][Next]_vars

(***************************************************************************)
(* Properties of generate_test_cases                                       *)
(***************************************************************************)
\* the call returned a batch: no metadata.error
Succeeded == pc = "returned" /\ result.kind = "returned" /\ "error" \notin DOMAIN result

SequentialIds == <<<<"T","C","-","0","0","1">>, <<"T","C","-","0","0","2">>, <<"T","C","-","0","0","3">>, <<"T","C","-","0","0","4">>, <<"T","C","-","0","0","5">>, <<"T","C","-","0","0","6">>, <<"T","C","-","0","0","7">>, <<"T","C","-","0","0","8">>, <<"T","C","-","0","0","9">>, <<"T","C","-","0","1","0">>>>

\* C1: on the successful path the test_id values of the returned cases, read in order, are
\* TC-001, TC-002, ... up to the number of returned cases, whatever ids the backend wrote
\* and whichever cases the filters dropped.
C1_SequentialIds ==
    Succeeded => /\ Len(result.test_cases) <= Len(SequentialIds)
                 /\ result.count = Len(result.test_cases)
                 /\ \A i \in 1..Len(result.test_cases) : result.test_cases[i].test_id = SequentialIds[i]

\* a batch of five cases with ids TC-007, TC-002, TC-003, TC-007 and none, of which the
\* hallucination check, the quality filter and the duplicate removal drop one each
C1_Witness == Succeeded /\ raw_response = MixedBatch /\ Len(result.test_cases) = 2

Decided == "should_proceed" \in DOMAIN strategy

\* C4: whenever the strategy has should_proceed = FALSE the call has returned, without an
\* exception, a result with no test cases, count 0 and the recommendation as its note, and
\* the backend was not called; the backend is only ever called after the strategy let the
\* request proceed.
C4_AbortIsStructured ==
    /\ (Decided /\ ~strategy.should_proceed) =>
          /\ backend_calls = 0
          /\ pc = "returned" /\ result.kind = "returned"
          /\ result.test_cases = <<>> /\ result.count = 0
          /\ result.note = strategy.recommendation
    /\ backend_calls > 0 => (Decided /\ strategy.should_proceed)

\* the gate stops a request that came with documentation
C4_Witness == Decided /\ ~strategy.should_proceed /\ pc = "returned" /\ used_chunks # <<>> /\ result.note = strategy.recommendation

\* a text without a bracket or a brace
NoJsonStructure(text) == \A i \in 1..Len(text) : text[i] \notin {LB, RB, LC, RC}

\* C6: for a raw backend text without any JSON structure the normalisation never raises,
\* and the list it hands to validation is empty or exactly one synthesized case with
\* needs_review set.
C6_NoStructureNeverRaises ==
    (backend_calls > 0 /\ NoJsonStructure(raw_response)) =>
        /\ pc # "raised"
        /\ pc = "extracted" => \/ test_cases = <<>>
                               \/ Len(test_cases) = 1 /\ test_cases[1].fallback_synthesized /\ test_cases[1].needs_review

\* what the stages of lines 179-292 and the secondary pass get out of a text
StageObjects(raw_text, parsed) ==
    IF parsed.ok /\ ~CasesOfShape(parsed.val).raises /\ ExtractedCases(NormalizedCases(CasesOfShape(parsed.val).cases), raw_text) # <<>>
    THEN ExtractedCases(NormalizedCases(CasesOfShape(parsed.val).cases), raw_text)
    ELSE CasesOf(secondary_json_format_pass(raw_text))

\* C7: after a backend call an error payload (metadata.error, no test cases) is returned
\* only when no stage extracts an object and the semantic fallback is unavailable.
C7_ErrorOnlyWhenUnrecoverable ==
    (pc = "returned" /\ backend_calls > 0 /\ "error" \in DOMAIN result) =>
        /\ ~AIML_AVAILABLE
        /\ \A parsed \in {response_json(raw_response)} : StageObjects(raw_response, parsed) = <<>>

ControlSet == {"\f"}

\* the class \s of line 20 once control characters are blanks
BlankSet == SpaceSet \cup ControlSet

\* re.sub(r'\s+', ' ', text) after line 19: each run of blanks becomes one space
CollapseBlanks(text) ==
    LET keep == {i \in 1..Len(text) : text[i] \notin BlankSet \/ i = 1 \/ text[i - 1] \notin BlankSet}
        idx(k) == CHOOSE i \in keep : Cardinality({j \in keep : j <= i}) = k
    IN [k \in 1..Cardinality(keep) |-> IF text[idx(k)] \in BlankSet THEN " " ELSE text[idx(k)]]

\* sanitize_text(text)
sanitize_text(text) == strip(CollapseBlanks(text))

\* c.get('source', 'unknown')
SourceOf(c) == IF "source" \in DOMAIN c THEN c.source ELSE <<"u","n","k","n","o","w","n">>

\* line 40: the part written for one selected chunk
ContextPart(c) == <<"[","S","o","u","r","c","e",":"," ">> \o SourceOf(c) \o <<"]","\n">> \o sanitize_text(c.text) \o <<"\n">>

\* lines 38-41: '\n'.join(parts) over the selected chunks
ContextOf(selected) == Join([i \in 1..Len(selected) |-> ContextPart(selected[i])], <<"\n">>)

\* the chunks handed to a direct call: texts of 0, 3, 4 and 8 characters, one without source
ContextChunks ==
    {[text |-> <<>>, source |-> <<"a",".","m","d">>],
     [text |-> <<"a","b","c">>, source |-> <<"a",".","m","d">>],
     [text |-> <<"a","b","c","d">>, source |-> <<"p","r","o","m","o",".","m","d">>],
     [text |-> <<"a","b"," ","\n"," "," ","c","d">>, source |-> <<"a",".","m","d">>],
     [text |-> <<"S","A","V","E","1","0"," ","\f">>, source |-> <<"a",".","m","d">>],
     [text |-> <<"a","b","c","d","e","f","g","h">>]}

MaxContextChunks == 2

MaxTokens == 4

InitContext ==
    /\ pc = "truncate_call"
    /\ retrieved_docs \in SeqsUpTo(ContextChunks, MaxContextChunks)
    /\ arg_max_tokens \in 0..MaxTokens
    /\ ret_context = <<>> /\ ret_truncated = FALSE /\ StepIdle /\ GraphIdle /\ KbIdle
    /\ prompt = <<>> /\ used_chunks = <<>> /\ strategy = [none |-> TRUE]
    /\ raw_response = <<>> /\ test_cases = <<>> /\ result = [kind |-> "none"] /\ backend_calls = 0
    /\ AIML_AVAILABLE = TRUE /\ zero_cost_answer = FALSE /\ doc_type_answer = <<>> /\ matcher_importable = TRUE /\ DF_MAP = {} /\ TOTAL_DOCS = 0
    /\ LLM_PROVIDER = "ollama" /\ GenIdle /\ LogIdle

\* truncate_context_smart(retrieved_docs, arg_max_tokens) returns its triple
TruncateCall ==
    /\ pc = "truncate_call"
    /\ used_chunks' = truncate_context_smart(retrieved_docs, arg_max_tokens)
    /\ ret_context' = ContextOf(used_chunks')
    /\ ret_truncated' = (Len(used_chunks') < Len(retrieved_docs))
    /\ pc' = "truncate_done"
    /\ UNCHANGED <<prompt, retrieved_docs, strategy, raw_response, test_cases, result, backend_calls, envVars, genVars, logVars, arg_max_tokens, stepVars, graphVars, kbVars>>

NextContext == TruncateCall

SpecContext == InitContext /\ [][NextContext]_vars

\* C11: the context string returned by truncate_context_smart, headers
\* included, has estimate_tokens at most max_tokens.
C11_ContextWithinBudget == pc = "truncate_done" => estimate_tokens(ret_context) <= arg_max_tokens

\* what the greedy loop of lines 31-37 does bound: the estimates of the selected texts
SelectedWithinBudget == pc = "truncate_done" => TokensUpTo(used_chunks, Len(used_chunks)) <= arg_max_tokens

(***************************************************************************)
(* json_utils.py: repair_json on a damaged array of objects                *)
(***************************************************************************)
\* the values an object of the array may hold, as token lists: a number, strings (three
\* of them hold a bracket or a brace), a list
RepairValues ==
    {<<<<"1">>>>, <<Quoted(<<"x">>)>>, <<Quoted(<<"[">>)>>, <<Quoted(<<"]">>)>>, <<Quoted(<<"{">>)>>, <<LB, <<"1">>, COMMA, <<"2">>, RB>>}

MaxMembers == 2

MaxObjects == 2

\* "k<i>":<value>
RepairMember(i, value) == <<Quoted(<<"k">> \o Decimal(i)), COLON>> \o value

RepairObject(values) == ObjectText([i \in 1..Len(values) |-> RepairMember(i, values[i])])

RepairObjects(m) == {RepairObject(values) : values \in [1..m -> RepairValues]}

\* well-formed arrays of objects: one object of up to MaxMembers members, or up to
\* MaxObjects objects of one member
RepairArrays ==
    {ArrayText(<<o>>) : o \in UNION {RepairObjects(m) : m \in 1..MaxMembers}}
    \cup UNION {{ArrayText(os) : os \in [1..n -> RepairObjects(1)]} : n \in 2..MaxObjects}

\* the array without its closing ] and with a comma put before the } at position p
Damaged(array, p) == SubSeq(array, 1, p - 1) \o <<COMMA>> \o SubSeq(array, p, Len(array) - 1)

RepairInputs == UNION {{Damaged(array, p) : p \in {i \in 1..Len(array) : array[i] = RC}} : array \in RepairArrays}

\* the string literals of the text hold no bracket and no brace
PlainLiterals(toks) == \A i \in 1..Len(toks) : Len(toks[i]) > 1 => \A k \in 1..Len(toks[i]) : toks[i][k] \notin {"[", "]", "{", "}"}

InitRepair ==
    /\ pc = "repair_call"
    /\ raw_response \in RepairInputs
    /\ prompt = <<>> /\ retrieved_docs = <<>> /\ used_chunks = <<>> /\ strategy = [none |-> TRUE]
    /\ test_cases = <<>> /\ result = [kind |-> "none"] /\ backend_calls = 0
    /\ AIML_AVAILABLE = TRUE /\ zero_cost_answer = FALSE /\ doc_type_answer = <<>> /\ matcher_importable = TRUE /\ DF_MAP = {} /\ TOTAL_DOCS = 0
    /\ LLM_PROVIDER = "ollama" /\ GenIdle /\ LogIdle /\ AuxIdle

\* json.loads(repair_json(raw_response))
RepairCall ==
    /\ pc = "repair_call"
    /\ \E repaired \in {repair_json(raw_response)} :
           result' = [kind |-> "repaired", text |-> repaired, parsed |-> json_loads(repaired)]
    /\ pc' = "repair_done"
    /\ UNCHANGED <<prompt, retrieved_docs, used_chunks, strategy, raw_response, test_cases, backend_calls, envVars, genVars, logVars, auxVars>>

NextRepair == RepairCall

SpecRepair == InitRepair /\ [][NextRepair]_vars

\* json.loads succeeded and gave a list of objects only
ListOfObjects(parsed) == parsed.ok /\ parsed.val.t = "list" /\ \A i \in 1..Len(parsed.val.items) : IsDictVal(parsed.val.items[i])

\* C12: for a JSON array of objects that lost its closing ] and got a trailing comma
\* before a }, json.loads of repair_json's result succeeds and gives a list of objects.
C12_DamagedArrayRepaired == pc = "repair_done" => ListOfObjects(result.parsed)

\* what the repair does achieve: the same, when no string literal holds a bracket or brace
PlainArrayRepaired == pc = "repair_done" /\ PlainLiterals(raw_response) => ListOfObjects(result.parsed)

(***************************************************************************)
(* The semantic-duplicate filter on one batch                              *)
(* (generate_test_cases.py:519-522, validation.py:83-93)                   *)
(***************************************************************************)
DuplicateScenarios == {<<"A","p","p","l","y"," ","d","i","s","c","o","u","n","t"," ","c","o","d","e"," ","a","t"," ","c","h","e","c","k","o","u","t">>, <<"R","e","m","o","v","e"," ","i","t","e","m"," ","f","r","o","m"," ","c","a","r","t">>}

\* the second list differs from the first in a word of more than 4 characters, the
\* third in a word of 4 characters only
DuplicateSteps ==
    {<<<<"O","p","e","n"," ","c","a","r","t">>, <<"E","n","t","e","r"," ","S","A","V","E","1","0">>, <<"C","l","i","c","k"," ","A","p","p","l","y">>>>,
     <<<<"O","p","e","n"," ","c","a","r","t">>, <<"E","n","t","e","r"," ","S","A","V","E","1","0">>, <<"P","r","e","s","s"," ","E","n","t","e","r"," ","t","w","i","c","e">>>>,
     <<<<"O","p","e","n"," ","c","a","r","t">>, <<"E","n","t","e","r"," ","S","A","V","E","1","0">>, <<"C","l","i","c","k"," ","A","p","p","l","y"," ","t","h","e","n"," ","w","a","i","t">>>>}

DuplicateIds == {<<"T","C","-","0","0","1">>, <<"T","C","-","0","0","2">>}

DuplicateCases ==
    {Case(id, scenario, steps, TRUE, <<"D","i","s","c","o","u","n","t"," ","i","s"," ","a","p","p","l","i","e","d">>, "positive", <<"p","r","o","m","o",".","m","d">>) : id \in DuplicateIds, scenario \in DuplicateScenarios, steps \in DuplicateSteps}

MaxBatch == 2

InitDuplicates ==
    /\ pc = "duplicates_call"
    /\ test_cases \in SeqsUpTo(DuplicateCases, MaxBatch)
    /\ prompt = <<>> /\ retrieved_docs = <<>> /\ used_chunks = <<>> /\ strategy = [none |-> TRUE]
    /\ raw_response = <<>> /\ result = [kind |-> "none"] /\ backend_calls = 0
    /\ AIML_AVAILABLE = TRUE /\ zero_cost_answer = FALSE /\ doc_type_answer = <<>> /\ matcher_importable = TRUE /\ DF_MAP = {} /\ TOTAL_DOCS = 0
    /\ LLM_PROVIDER = "ollama" /\ GenIdle /\ LogIdle /\ AuxIdle

\* lines 519-522: the cases whose index detect_semantic_duplicates returns are removed
RemoveDuplicates ==
    /\ pc = "duplicates_call"
    /\ result' = [kind |-> "deduplicated", batch |-> test_cases, duplicate_indices |-> detect_semantic_duplicates(test_cases)]
    /\ test_cases' = WithoutDuplicates(test_cases)
    /\ pc' = "duplicates_done"
    /\ UNCHANGED <<prompt, retrieved_docs, used_chunks, strategy, raw_response, backend_calls, envVars, genVars, logVars, auxVars>>

NextDuplicates == RemoveDuplicates

SpecDuplicates == InitDuplicates /\ [][NextDuplicates]_vars

\* cases i < j of the batch with the same scenario and different ids
SameScenario(batch, i, j) == i < j /\ batch[i].test_scenario = batch[j].test_scenario /\ batch[i].test_id # batch[j].test_id

CleanStep(step) ==
    LET d == RunEnd(step, 1, DigitSet)
        p == IF d > 1 /\ d <= Len(step) /\ step[d] = "." THEN d + 1 ELSE d
    IN IF d = 1 THEN step ELSE SubSeq(step, RunEnd(step, p, SpaceSet), Len(step))

QuoteSet == {"'", "\""}

\* the end of a match of <attr>\s*[=:\s]\s*['"]([^'"]+)['"] that starts at i, or 0
AttrMatch(s, i, attr) ==
    IF ~StartsAt(lower(s), i, attr) THEN [ok |-> FALSE, value |-> <<>>]
    ELSE LET a == i + Len(attr)
             b == RunEnd(s, a, SpaceSet)
             c == IF b <= Len(s) /\ s[b] \in {"=", ":"} THEN RunEnd(s, b + 1, SpaceSet) ELSE b
             close == {k \in (c + 2)..Len(s) : s[k] \in QuoteSet}
         IN IF c > a /\ c <= Len(s) /\ s[c] \in QuoteSet /\ close # {} /\ (\A k \in (c + 1)..(Min(close) - 1) : s[k] \notin QuoteSet) /\ Min(close) > c + 1
            THEN [ok |-> TRUE, value |-> SubSeq(s, c + 1, Min(close) - 1)]
            ELSE [ok |-> FALSE, value |-> <<>>]

\* lines 497-498: re.search of the pattern for id and for class; <<>> when there is no match
ExplicitAttr(s, attr) ==
    LET hits == {i \in 1..Len(s) : AttrMatch(s, i, attr).ok}
    IN IF hits = {} THEN <<>> ELSE AttrMatch(s, Min(hits), attr).value

\* line 750: re.search(r'\b(P\d{3})\b', clean_step, re.IGNORECASE); <<>> when there is no match
ProductId(s) ==
    LET hits == {i \in 1..(Len(s) - 3) :
                    /\ s[i] \in {"P", "p"} /\ IsDigit(s[i + 1]) /\ IsDigit(s[i + 2]) /\ IsDigit(s[i + 3])
                    /\ (i = 1 \/ ~IsWordChar(s[i - 1]))
                    /\ (i + 4 > Len(s) \/ ~IsWordChar(s[i + 4]))}
    IN IF hits = {} THEN <<>> ELSE SubSeq(s, Min(hits), Min(hits) + 3)

\* str.upper()
upper(s) == [i \in 1..Len(s) |-> IF s[i] \in LowerSet THEN ToUpper[s[i]] ELSE s[i]]

\* x.lower() in step_lower
InStep(x, step_lower) == Contains(step_lower, lower(x))

\* semantic_matcher.py:321: the literal patterns of a verification step
VerificationPatterns == {<<"c","h","e","c","k"," ","i","f">>, <<"c","h","e","c","k"," ","t","h","a","t">>, <<"c","h","e","c","k"," ","w","h","e","t","h","e","r">>}

\* similarities in units of 0.0001
VERIFICATION_THRESHOLD == 3000

ACTION_MARGIN == 800

\* semantic_matcher.py:300-365: the verdict (is_verification, confidence) for step_text,
\* sims being what the embedder gives: the best similarity to a verification intent and
\* to an action intent, or a failure of the embedder
is_verification_step(step_text, sims) ==
    IF \E pattern \in VerificationPatterns : Contains(strip(lower(step_text)), pattern) THEN <<TRUE, 9500>>
    ELSE IF sims.failed THEN <<FALSE, 0>>
    ELSE <<sims.verification > VERIFICATION_THRESHOLD /\ sims.verification > sims.action + ACTION_MARGIN, sims.verification>>

\* a gate that lets every step through to the action rules
VerificationGate_Never(verdict) == FALSE

\* line 508: is_verification and verification_confidence > 0.30
VerificationGate(verdict) == verdict[1] /\ verdict[2] > VERIFICATION_THRESHOLD

Line(i, kind, target, value) == [step |-> i, kind |-> kind, target |-> target, value |-> value]

\* lines 510-512: the placeholder of a verification step
VerificationPlaceholder(i, clean_step) ==
    <<Line(i, "verification_comment", clean_step, <<>>), Line(i, "todo_comment", <<>>, <<>>), Line(i, "blank", <<>>, <<>>)>>

\* what the loop knows of a step: lines 495-501 and 750
StepFacts(i, step) ==
    CHOOSE f \in {[i |-> i, step |-> step, clean_step |-> c, step_lower |-> lower(c),
                   explicit_id |-> ExplicitAttr(c, <<"i","d">>), explicit_class |-> ExplicitAttr(c, <<"c","l","a","s","s">>), product_id |-> ProductId(c)] : c \in {CleanStep(step)}} : TRUE

Matched(lines, filled) == [matched |-> TRUE, lines |-> lines, filled |-> filled]

Unmatched(filled) == [matched |-> FALSE, lines |-> <<>>, filled |-> filled]

Comment(f) == Line(f.i, "comment", f.clean_step, <<>>)

Blank(f) == Line(f.i, "blank", <<>>, <<>>)

Usable(e, filled) == e.id # <<>> /\ e.id \notin filled

\* lines 536-538 and 575-576; gated is TRUE inside the select-action branch
SelectHit(sel, f, gated) ==
    \/ InStep(sel.id, f.step_lower) \/ InStep(sel.name, f.step_lower)
    \/ \E k \in 1..Len(sel.options) : sel.options[k] # <<>> /\ InStep(sel.options[k], f.step_lower)
    \/ gated /\ f.explicit_id # <<>> /\ lower(f.explicit_id) = lower(sel.id)

\* lines 541-548: the first option named in the step, else the first option
SelectedOption(sel, f) ==
    LET named == {k \in 1..Len(sel.options) : sel.options[k] # <<>> /\ InStep(sel.options[k], f.step_lower)}
    IN IF named # {} THEN sel.options[Min(named)] ELSE IF sel.options # <<>> THEN sel.options[1] ELSE <<>>

\* lines 521-555 (gated) and 560-593: the first usable select that the step names
SelectRule(f, filled, gated) ==
    LET selects == html_structure.selects
        hits == {k \in 1..Len(selects) : Usable(selects[k], filled) /\ SelectHit(selects[k], f, gated)}
        sel == selects[Min(hits)]
    IN IF hits = {} THEN Unmatched(filled)
       ELSE Matched(<<Comment(f), Line(f.i, "select_dropdown_option", sel.id, SelectedOption(sel, f)), Blank(f)>>, filled \cup {sel.id})

\* lines 604-605 and 615: the semantic match needs the id in the step as well, so it adds nothing
CheckboxHit(cb, f) ==
    \/ InStep(cb.id, f.step_lower)
    \/ cb.label # <<>> /\ \E w \in {SplitWhitespace(cb.label)[k] : k \in 1..Len(SplitWhitespace(cb.label))} : Len(w) > 3 /\ InStep(w, f.step_lower)

\* lines 598-623
CheckboxRule(f, filled) ==
    LET boxes == html_structure.checkboxes
        hits == {k \in 1..Len(boxes) : Usable(boxes[k], filled) /\ CheckboxHit(boxes[k], f)}
    IN IF hits = {} THEN Unmatched(filled)
       ELSE Matched(<<Comment(f), Line(f.i, "check_checkbox", boxes[Min(hits)].id, <<>>), Blank(f)>>, filled \cup {boxes[Min(hits)].id})

\* lines 647-684: the kind of value written into the field
InputValue(inp, f, promo) ==
    IF inp.type = "number" /\ \E k \in 1..Len(f.clean_step) : IsDigit(f.clean_step[k]) THEN "step_number"
    ELSE IF inp.type = "email" THEN "email"
    ELSE IF inp.type = "tel" \/ InStep(<<"p","h","o","n","e">>, lower(inp.id)) THEN "phone"
    ELSE IF InStep(<<"z","i","p">>, lower(inp.id)) \/ InStep(<<"p","o","s","t","a","l">>, lower(inp.id)) THEN "zip"
    ELSE IF inp.type \in {"date", "datetime-local"} THEN "date"
    ELSE IF InStep(<<"s","e","a","r","c","h">>, lower(inp.id)) THEN "search"
    ELSE IF promo THEN "coupon"
    ELSE IF inp.type = "password" THEN "password"
    ELSE "generic_text"

ApplyWords == {<<"a","p","p","l","y">>, <<"s","u","b","m","i","t">>, <<"v","a","l","i","d","a","t","e">>}

ResultWords == {<<"r","e","s","u","l","t">>, <<"m","e","s","s","a","g","e">>, <<"s","t","a","t","u","s">>}

\* lines 694-703: the follow-up of a promo field
PromoFollowUp(f) ==
    LET buttons == html_structure.buttons
        dynamic == html_structure.dynamic_elements
        applies == {k \in 1..Len(buttons) : \E kw \in ApplyWords : InStep(kw, lower(buttons[k].id)) \/ InStep(kw, lower(buttons[k].text))}
        results == {k \in 1..Len(dynamic) : \E kw \in ResultWords : InStep(kw, lower(dynamic[k].id))}
    IN IF applies = {} \/ buttons[Min(applies)].id = <<>> THEN <<>>
       ELSE <<Line(f.i, "click_button", buttons[Min(applies)].id, <<>>)>>
            \o (IF results = {} THEN <<>> ELSE <<Line(f.i, "wait_for_element", dynamic[Min(results)].id, <<>>)>>)

\* lines 628-708; promo is detect_input_purpose's answer "promo with a score above 0.5"
InputRule(f, filled, promo) ==
    LET inputs == html_structure.inputs
        hits == {k \in 1..Len(inputs) :
                    /\ inputs[k].type \notin {"checkbox", "radio"} /\ Usable(inputs[k], filled)
                    /\ (InStep(inputs[k].id, f.step_lower) \/ (inputs[k].name # <<>> /\ InStep(inputs[k].name, f.step_lower)))}
        inp == inputs[Min(hits)]
    IN IF hits = {} THEN Unmatched(filled)
       ELSE Matched(<<Comment(f), Line(f.i, "fill_input_field", inp.id, InputValue(inp, f, promo))>>
                    \o (IF promo THEN PromoFollowUp(f) ELSE <<>>) \o <<Blank(f)>>, filled \cup {inp.id})

\* the input rule looks at detect_input_purpose only when a field is hit
InputHit(f, filled) == InputRule(f, filled, FALSE).matched

\* lines 713-740; semantic is the set of radio ids match_radio_option_intent gives back
RadioRule(f, filled, semantic) ==
    LET inputs == html_structure.inputs
        hits == {k \in 1..Len(inputs) :
                    /\ inputs[k].type = "radio" /\ Usable(inputs[k], filled)
                    /\ (InStep(inputs[k].id, f.step_lower) \/ (inputs[k].value # <<>> /\ InStep(inputs[k].value, f.step_lower)) \/ inputs[k].id \in semantic)}
    IN IF hits = {} THEN Unmatched(filled)
       ELSE Matched(<<Comment(f), Line(f.i, "select_radio", inputs[Min(hits)].id, <<>>), Blank(f)>>, filled \cup {inputs[Min(hits)].id})

\* the usable radios, about each of which match_radio_option_intent is asked
Radios(filled) == {html_structure.inputs[k].id : k \in {j \in 1..Len(html_structure.inputs) : html_structure.inputs[j].type = "radio" /\ Usable(html_structure.inputs[j], filled)}}

\* btn_class.split()[0]
FirstClass(btn) == SplitWhitespace(btn.class)[1]

\* lines 762-767
ButtonHit(btn, f) ==
    \/ f.explicit_id # <<>> /\ btn.id # <<>> /\ lower(f.explicit_id) = lower(btn.id)
    \/ f.explicit_class # <<>> /\ btn.class # <<>> /\ InStep(f.explicit_class, lower(btn.class))
    \/ f.product_id # <<>> /\ btn.onclick # <<>> /\ Contains(upper(btn.onclick), upper(f.product_id))
    \/ f.explicit_id = <<>> /\ btn.id # <<>> /\ InStep(btn.id, f.step_lower)
    \/ btn.text # <<>> /\ InStep(btn.text, f.step_lower)
    \/ f.explicit_class = <<>> /\ btn.class # <<>> /\ \E k \in 1..Len(SplitWhitespace(btn.class)) : InStep(SplitWhitespace(btn.class)[k], f.step_lower)

\* lines 772-784: the click that is written for the button
ButtonClick(btn, f) ==
    IF btn.id # <<>> THEN <<Line(f.i, "click_button", btn.id, <<>>)>>
    ELSE IF f.product_id # <<>> /\ btn.onclick # <<>> /\ Contains(upper(btn.onclick), upper(f.product_id)) THEN <<Line(f.i, "click_button_by_onclick", f.product_id, <<>>)>>
    ELSE IF f.explicit_class # <<>> /\ btn.class # <<>> THEN <<Line(f.i, "click_button_by_class", f.explicit_class, <<>>)>>
    ELSE IF btn.text # <<>> THEN <<Line(f.i, "click_button_by_text", btn.text, <<>>)>>
    ELSE IF btn.class # <<>> THEN <<Line(f.i, "click_button_by_class", FirstClass(btn), <<>>)>>
    ELSE <<>>

\* lines 753-788, inside the branch of a button action
ButtonRule(f, filled) ==
    LET buttons == html_structure.buttons
        hits == {k \in 1..Len(buttons) : ~(buttons[k].id # <<>> /\ buttons[k].id \in filled) /\ ButtonHit(buttons[k], f)}
        btn == buttons[Min(hits)]
    IN IF hits = {} THEN Unmatched(filled)
       ELSE Matched(<<Comment(f)>> \o ButtonClick(btn, f) \o <<Blank(f)>>, IF btn.id # <<>> THEN filled \cup {btn.id} ELSE filled)

\* lines 793-813: the elements _find_semantic_match may choose from
Candidates(filled) ==
    {[tag |-> "input", e |-> html_structure.inputs[k]] : k \in {j \in 1..Len(html_structure.inputs) : Usable(html_structure.inputs[j], filled)}}
    \cup {[tag |-> "button", e |-> html_structure.buttons[k]] : k \in {j \in 1..Len(html_structure.buttons) : ~(html_structure.buttons[j].id # <<>> /\ html_structure.buttons[j].id \in filled)}}
    \cup {[tag |-> "select", e |-> html_structure.selects[k]] : k \in {j \in 1..Len(html_structure.selects) : Usable(html_structure.selects[j], filled)}}

\* lines 817-858 for the candidate c that _find_semantic_match returned
SemanticRule(f, filled, c) ==
    LET head == Line(f.i, "comment_semantic_match", f.clean_step, <<>>)
    IN IF c.tag = "button"
       THEN Matched(<<head>>
                    \o (IF c.e.id # <<>> THEN <<Line(f.i, "click_button", c.e.id, <<>>)>>
                        ELSE IF c.e.text # <<>> THEN <<Line(f.i, "click_button_by_text", c.e.text, <<>>)>>
                        ELSE IF c.e.class # <<>> THEN <<Line(f.i, "click_button_by_class", FirstClass(c.e), <<>>)>>
                        ELSE IF ProductId(c.e.onclick) # <<>> THEN <<Line(f.i, "click_button_by_onclick", ProductId(c.e.onclick), <<>>)>>
                        ELSE <<>>)
                    \o <<Blank(f)>>, IF c.e.id # <<>> THEN filled \cup {c.e.id} ELSE filled)
       ELSE IF c.tag = "input"
       THEN Matched(<<head, Line(f.i, "fill_input_field", c.e.id, IF c.e.type = "email" THEN "email" ELSE IF c.e.type = "number" THEN "one" ELSE IF c.e.type = "tel" THEN "phone" ELSE "generic_text"), Blank(f)>>,
                    filled \cup {c.e.id})
       ELSE Matched(<<head, Line(f.i, "select_dropdown_option", c.e.id, IF c.e.options # <<>> THEN c.e.options[1] ELSE <<>>), Blank(f)>>, filled \cup {c.e.id})

ConsentWords == {<<"t","e","r","m">>, <<"a","g","r","e","e">>, <<"a","c","c","e","p","t">>, <<"c","o","n","s","e","n","t">>}

\* lines 865-877: the simple inputs that are still empty get a default
FinalFills(f, filled) ==
    LET inputs == html_structure.inputs
        Open(inp) == Usable(inp, filled) /\ inp.type \in {"text", "email", "tel", "number"}
        open == SelectSeq(inputs, Open)
    IN [k \in 1..Len(open) |-> Line(f.i, "fill_input_field", open[k].id, IF open[k].type = "email" THEN "email" ELSE IF open[k].type = "tel" THEN "phone" ELSE IF open[k].type = "number" THEN "one" ELSE "generic_text")]

\* lines 879-883: the consent checkboxes that are still open are checked
FinalChecks(f, filled) ==
    LET Open(cb) == Usable(cb, filled) /\ \E kw \in ConsentWords : Contains(lower(cb.label), kw)
        open == SelectSeq(html_structure.checkboxes, Open)
    IN [k \in 1..Len(open) |-> Line(f.i, "check_checkbox", open[k].id, <<>>)]

\* _find_submit_button_semantic: the first button of type submit; failing that the
\* embedder's best button or the last one; <<>> stands for None
SubmitChoices ==
    LET buttons == html_structure.buttons
        typed == {k \in 1..Len(buttons) : buttons[k].type = "submit"}
    IN IF buttons = <<>> THEN {<<>>} ELSE IF typed # {} THEN {<<buttons[Min(typed)]>>} ELSE {<<buttons[k]>> : k \in 1..Len(buttons)}

\* lines 888-906
SubmitLines(f, submit) ==
    IF submit = <<>> THEN <<>>
    ELSE LET btn == submit[1]
         IN <<Comment(f)>>
            \o (IF btn.id # <<>> THEN (IF btn.disabled THEN <<Line(f.i, "wait_button_enabled", btn.id, <<>>)>> ELSE <<>>) \o <<Line(f.i, "click_button", btn.id, <<>>)>>
                ELSE IF btn.text # <<>> THEN <<Line(f.i, "click_button_by_text", btn.text, <<>>)>>
                ELSE IF btn.class # <<>> THEN <<Line(f.i, "click_button_by_class", FirstClass(btn), <<>>)>>
                ELSE <<>>)
            \o <<Blank(f)>>

\* lines 864-907 for a step taken as a final action; so_far is the body before the step
FinalRule(f, filled, so_far, submit) ==
    LET fills == FinalFills(f, filled) \o FinalChecks(f, filled)
        written == so_far \o fills
        gap == IF written # <<>> /\ written[Len(written)].kind # "blank" THEN <<Blank(f)>> ELSE <<>>
    IN Matched(fills \o gap \o SubmitLines(f, submit), filled)

\* the outcome of the rule that took the step, under the name of the rule
ByRule(rule, r) == [rule |-> rule, matched |-> r.matched, lines |-> r.lines, filled |-> r.filled]

\* rule 9 (lines 863-907): _is_final_action_step is above the threshold or not
FinalOutcomes(f, filled, so_far) == {ByRule("none", Unmatched(filled))} \cup {ByRule("final_action", FinalRule(f, filled, so_far, submit)) : submit \in SubmitChoices}

\* rule 8 (lines 793-858): _find_semantic_match returns a candidate or None
SemanticOutcomes(f, filled, so_far) == {ByRule("semantic_fallback", SemanticRule(f, filled, c)) : c \in Candidates(filled)} \cup FinalOutcomes(f, filled, so_far)

\* rule 7 (lines 745-788): match_button_action says yes or no
ButtonOutcomes(f, filled, so_far) ==
    (IF ButtonRule(f, filled).matched THEN {ByRule("button_action", ButtonRule(f, filled))} ELSE {}) \cup SemanticOutcomes(f, filled, so_far)

\* rule 6 (lines 713-740)
RadioOutcomes(f, filled, so_far) ==
    LET tried == {RadioRule(f, filled, semantic) : semantic \in SUBSET Radios(filled)}
    IN {ByRule("radio", r) : r \in {t \in tried : t.matched}} \cup (IF \E r \in tried : ~r.matched THEN ButtonOutcomes(f, filled, so_far) ELSE {})

\* rule 5 without the continue of lines 710-711: the later rules see the step as well
InputOutcomes_NoContinue(f, filled, so_far) ==
    IF InputHit(f, filled)
    THEN UNION {{[rule |-> "text_input", matched |-> TRUE, lines |-> r.lines \o later.lines, filled |-> later.filled] : later \in RadioOutcomes(f, r.filled, so_far)} :
                   r \in {InputRule(f, filled, promo) : promo \in BOOLEAN}}
    ELSE RadioOutcomes(f, filled, so_far)

\* rule 5 (lines 628-708)
InputOutcomes(f, filled, so_far) ==
    IF InputHit(f, filled) THEN {ByRule("text_input", InputRule(f, filled, promo)) : promo \in BOOLEAN} ELSE RadioOutcomes(f, filled, so_far)

\* rule 4 (lines 598-623)
CheckboxOutcomes(f, filled, so_far) ==
    IF CheckboxRule(f, filled).matched THEN {ByRule("checkbox", CheckboxRule(f, filled))} ELSE InputOutcomes(f, filled, so_far)

\* rules 2 and 3 (lines 518-593): match_select_action says yes or no
ActionOutcomes(f, filled, so_far) ==
    (IF SelectRule(f, filled, TRUE).matched THEN {ByRule("select_action", SelectRule(f, filled, TRUE))} ELSE {})
    \cup (IF SelectRule(f, filled, FALSE).matched THEN {ByRule("fallback_select", SelectRule(f, filled, FALSE))} ELSE CheckboxOutcomes(f, filled, so_far))

\* what the embedder may answer to is_verification_step
VerificationSims ==
    {[failed |-> TRUE, verification |-> 0, action |-> 0]}
    \cup {[failed |-> FALSE, verification |-> v, action |-> a] : v \in {2500, 3500}, a \in {2000, 3000}}

Select(id, name, options) == [id |-> id, name |-> name, options |-> options]

Checkbox(id, label) == [id |-> id, label |-> label]

Input(id, name, type, value) == [id |-> id, name |-> name, type |-> type, value |-> value]

Button(id, text, class, onclick, type, disabled) == [id |-> id, text |-> text, class |-> class, onclick |-> onclick, type |-> type, disabled |-> disabled]

\* a checkout form
FormPage ==
    [selects |-> <<Select(<<"p","l","a","n">>, <<"p","l","a","n">>, <<<<"B","a","s","i","c">>, <<"P","r","e","m","i","u","m">>>>)>>,
     checkboxes |-> <<Checkbox(<<"t","e","r","m","s">>, <<"A","c","c","e","p","t"," ","t","e","r","m","s">>)>>,
     inputs |-> <<Input(<<"e","m","a","i","l">>, <<"e","m","a","i","l">>, "email", <<>>), Input(<<"p","r","o","m","o">>, <<"p","r","o","m","o">>, "text", <<>>), Input(<<"e","x","p","r","e","s","s">>, <<"s","h","i","p","p","i","n","g">>, "radio", <<"e","x","p","r","e","s","s">>)>>,
     buttons |-> <<Button(<<"a","p","p","l","y">>, <<"A","p","p","l","y">>, <<"b","t","n"," ","p","r","i","m","a","r","y">>, <<>>, "button", FALSE), Button(<<"s","u","b","m","i","t">>, <<"S","u","b","m","i","t">>, <<"b","t","n">>, <<>>, "submit", TRUE)>>,
     dynamic_elements |-> <<[id |-> <<"r","e","s","u","l","t">>]>>]

\* a product page: a button without id, a select without name
ProductPage ==
    [selects |-> <<Select(<<"s","i","z","e">>, <<>>, <<>>)>>,
     checkboxes |-> <<>>,
     inputs |-> <<Input(<<"q","t","y">>, <<>>, "number", <<>>)>>,
     buttons |-> <<Button(<<>>, <<"A","d","d">>, <<"a","d","d","-","b","t","n">>, <<"a","d","d","T","o","C","a","r","t","(","'","P","0","0","1","'",")">>, "button", FALSE)>>,
     dynamic_elements |-> <<>>]

\* a page without a select
LoginPage ==
    [selects |-> <<>>,
     checkboxes |-> <<Checkbox(<<"r","e","m","e","m","b","e","r">>, <<"R","e","m","e","m","b","e","r"," ","t","h","i","s"," ","d","e","v","i","c","e">>)>>,
     inputs |-> <<Input(<<"e","m","a","i","l">>, <<"e","m","a","i","l">>, "email", <<>>), Input(<<"p","a","s","s","w","o","r","d">>, <<"p","a","s","s","w","o","r","d">>, "password", <<>>)>>,
     buttons |-> <<Button(<<"l","o","g","i","n">>, <<"L","o","g","i","n">>, <<"b","t","n">>, <<>>, "button", FALSE), Button(<<>>, <<"C","a","n","c","e","l">>, <<"b","t","n","-","c","a","n","c","e","l">>, <<>>, "button", FALSE)>>,
     dynamic_elements |-> <<[id |-> <<"m","e","s","s","a","g","e">>]>>]

StepInventories == {FormPage, ProductPage, LoginPage}

StepTexts ==
    {<<"V","e","r","i","f","y"," ","t","h","a","t"," ","a","n"," ","e","r","r","o","r"," ","m","e","s","s","a","g","e"," ","a","p","p","e","a","r","s">>,
     <<"1","."," ","C","h","e","c","k"," ","i","f"," ","p","l","a","n"," ","P","r","e","m","i","u","m"," ","i","s"," ","s","e","l","e","c","t","e","d">>,
     <<"C","h","e","c","k"," ","t","h","a","t"," ","t","e","r","m","s"," ","a","n","d"," ","e","m","a","i","l"," ","a","r","e"," ","s","h","o","w","n">>,
     <<"S","e","l","e","c","t"," ","t","h","e"," ","P","r","e","m","i","u","m"," ","p","l","a","n">>,
     <<"E","n","t","e","r"," ","p","r","o","m","o"," ","c","o","d","e"," ","S","A","V","E","1","0">>,
     <<"C","l","i","c","k"," ","t","h","e"," ","b","u","t","t","o","n"," ","w","i","t","h"," ","i","d","=","\"","l","o","g","i","n","\"">>,
     <<"A","d","d"," ","P","0","0","1"," ","t","o"," ","t","h","e"," ","c","a","r","t">>,
     <<"S","u","b","m","i","t"," ","t","h","e"," ","f","o","r","m">>}

MaxSteps == 2

InitSteps ==
    /\ pc = "fallback_call"
    /\ html_structure \in StepInventories
    /\ normalized_steps \in SeqsUpTo(StepTexts, MaxSteps)
    /\ step_index = 1 /\ body = <<>> /\ filled_fields = {} /\ verdicts = <<>>
    /\ prompt = <<>> /\ retrieved_docs = <<>> /\ used_chunks = <<>> /\ strategy = [none |-> TRUE]
    /\ raw_response = <<>> /\ test_cases = <<>> /\ result = [kind |-> "none"] /\ backend_calls = 0
    /\ AIML_AVAILABLE = TRUE /\ zero_cost_answer = FALSE /\ doc_type_answer = <<>> /\ matcher_importable = TRUE /\ DF_MAP = {} /\ TOTAL_DOCS = 0
    /\ LLM_PROVIDER = "ollama" /\ GenIdle /\ LogIdle /\ CtxIdle /\ GraphIdle /\ KbIdle

\* lines 493-514: the step is taken for a verification and gets its placeholder
EmitPlaceholder ==
    /\ pc = "fallback_call" /\ step_index <= Len(normalized_steps)
    /\ \E sims \in VerificationSims, f \in {StepFacts(step_index, normalized_steps[step_index])} :
        \E verdict \in {is_verification_step(f.clean_step, sims)} :
           /\ VerificationGate(verdict)
           /\ verdicts' = Append(verdicts, verdict \o <<"verification", filled_fields>>)
           /\ body' = body \o VerificationPlaceholder(f.i, f.clean_step)
    /\ step_index' = step_index + 1
    /\ UNCHANGED <<pc, prompt, retrieved_docs, used_chunks, strategy, raw_response, test_cases, result, backend_calls, envVars, genVars, logVars, ctxVars, graphVars, kbVars, html_structure, normalized_steps, filled_fields>>

\* lines 493-508 and 518-907: the step goes through the action rules
MapAction ==
    /\ pc = "fallback_call" /\ step_index <= Len(normalized_steps)
    /\ \E sims \in VerificationSims, f \in {StepFacts(step_index, normalized_steps[step_index])} :
        \E verdict \in {is_verification_step(f.clean_step, sims)} :
           /\ ~VerificationGate(verdict)
           /\ \E r \in ActionOutcomes(f, filled_fields, body) :
                  /\ verdicts' = Append(verdicts, verdict \o <<r.rule, filled_fields>>)
                  /\ body' = body \o r.lines /\ filled_fields' = r.filled
    /\ step_index' = step_index + 1
    /\ UNCHANGED <<pc, prompt, retrieved_docs, used_chunks, strategy, raw_response, test_cases, result, backend_calls, envVars, genVars, logVars, ctxVars, graphVars, kbVars, html_structure, normalized_steps>>

\* line 909: return body
ReturnBody ==
    /\ pc = "fallback_call" /\ step_index > Len(normalized_steps)
    /\ result' = [kind |-> "body", lines |-> body]
    /\ pc' = "fallback_done"
    /\ UNCHANGED <<prompt, retrieved_docs, used_chunks, strategy, raw_response, test_cases, backend_calls, envVars, genVars, logVars, auxVars>>

NextSteps == EmitPlaceholder \/ MapAction \/ ReturnBody

SpecSteps == InitSteps /\ [][NextSteps]_vars

\* the lines the loop wrote for step k
LinesOf(k) ==
    LET Of(l) == l.step = k
    IN SelectSeq(body, Of)

ActionKinds ==
    {"select_dropdown_option", "check_checkbox", "fill_input_field", "select_radio", "click_button", "click_button_by_onclick",
     "click_button_by_class", "click_button_by_text", "wait_for_element", "wait_button_enabled"}

\* C14: a step that is_verification_step recognises as a verification step gets the
\* comment placeholder and no click, fill, select or check line, also when it names an
\* element id or an option of the inventory.
C14_VerificationOnlyPlaceholder ==
    \A k \in 1..Len(verdicts) :
        verdicts[k][1] =>
            /\ LinesOf(k) = VerificationPlaceholder(k, CleanStep(normalized_steps[k]))
            /\ \A j \in 1..Len(body) : body[j].step = k => body[j].kind \notin ActionKinds

\* the step "1. Check if plan Premium is selected" met the form that has the select plan
\* with the option Premium and left its placeholder, while the step before it selected
C14_Witness ==
    /\ pc = "fallback_done" /\ html_structure = FormPage
    /\ normalized_steps = <<<<"S","e","l","e","c","t"," ","t","h","e"," ","P","r","e","m","i","u","m"," ","p","l","a","n">>, <<"1","."," ","C","h","e","c","k"," ","i","f"," ","p","l","a","n"," ","P","r","e","m","i","u","m"," ","i","s"," ","s","e","l","e","c","t","e","d">>>>
    /\ ~verdicts[1][1] /\ verdicts[2][1]
    /\ \E j \in 1..Len(body) : body[j].step = 1 /\ body[j].kind = "select_dropdown_option"
    /\ LinesOf(2) = VerificationPlaceholder(2, <<"C","h","e","c","k"," ","i","f"," ","p","l","a","n"," ","P","r","e","m","i","u","m"," ","i","s"," ","s","e","l","e","c","t","e","d">>)

(***************************************************************************)
(* html_dependency_analyzer.py: FormDependencyGraph.  nodes is the dict of *)
(* the class, kept as the sequence of its values in insertion order; edges *)
(* is the list of the class.                                               *)
(***************************************************************************)
ElementIds == {"a", "b", "c"}

ElementTypes == {"input", "button"}

MaxNodes == 3

MaxEdges == 2

\* the keys of self.nodes, in insertion order
NodeIds(ns) == [i \in 1..Len(ns) |-> ns[i].id]

NodeIdSet(ns) == {ns[i].id : i \in 1..Len(ns)}

\* lines 20-25: self.nodes[element_id] = {...}; an existing key keeps its place
add_node(ns, element_id, element_type) ==
    IF element_id \in NodeIdSet(ns)
    THEN [i \in 1..Len(ns) |-> IF ns[i].id = element_id THEN [id |-> element_id, type |-> element_type] ELSE ns[i]]
    ELSE Append(ns, [id |-> element_id, type |-> element_type])

\* lines 27-32
add_edge(es, from_id, to_id, condition) == Append(es, [from |-> from_id, to |-> to_id, condition |-> condition])

\* lines 45-49: every edge whose target is a node counts, whatever its source
InDegree(ns, es) == [n \in NodeIdSet(ns) |-> Cardinality({i \in 1..Len(es) : es[i].to = n})]

\* line 51: the nodes of in-degree 0, in the order of the dict
InitialQueue(ns, in_degree) ==
    LET Free(n) == in_degree[n] = 0
    IN SelectSeq(NodeIds(ns), Free)

\* lines 58-62: the edges leaving node_id, in list order, lower the in-degree of their
\* target and queue it when it reaches 0
RECURSIVE Relax(_, _, _, _)
Relax(es, i, node_id, st) ==
    IF i > Len(es) THEN st
    ELSE IF es[i].from = node_id /\ es[i].to \in DOMAIN st.in_degree
         THEN LET d == st.in_degree[es[i].to] - 1
                  deg == [st.in_degree EXCEPT ![es[i].to] = d]
              IN Relax(es, i + 1, node_id, [in_degree |-> deg, queue |-> IF d = 0 THEN Append(st.queue, es[i].to) ELSE st.queue])
         ELSE Relax(es, i + 1, node_id, st)

\* lines 54-62: the while loop
RECURSIVE Drain(_, _, _)
Drain(es, st, order) ==
    IF st.queue = <<>> THEN order
    ELSE Drain(es, Relax(es, 1, Head(st.queue), [in_degree |-> st.in_degree, queue |-> Tail(st.queue)]), Append(order, Head(st.queue)))

\* lines 44-64
topological_sort(ns, es) ==
    LET in_degree == InDegree(ns, es)
    IN Drain(es, [in_degree |-> in_degree, queue |-> InitialQueue(ns, in_degree)], <<>>)

InitGraph ==
    /\ pc = "graph_built"
    /\ nodes = <<>> /\ edges = <<>>
    /\ prompt = <<>> /\ retrieved_docs = <<>> /\ used_chunks = <<>> /\ strategy = [none |-> TRUE]
    /\ raw_response = <<>> /\ test_cases = <<>> /\ result = [kind |-> "none"] /\ backend_calls = 0
    /\ AIML_AVAILABLE = TRUE /\ zero_cost_answer = FALSE /\ doc_type_answer = <<>> /\ matcher_importable = TRUE /\ DF_MAP = {} /\ TOTAL_DOCS = 0
    /\ LLM_PROVIDER = "ollama" /\ GenIdle /\ LogIdle /\ CtxIdle /\ StepIdle /\ KbIdle

AddNode ==
    /\ pc = "graph_built"
    /\ \E element_id \in ElementIds, element_type \in ElementTypes :
        /\ element_id \in NodeIdSet(nodes) \/ Len(nodes) < MaxNodes
        /\ nodes' = add_node(nodes, element_id, element_type)
    /\ UNCHANGED <<pc, prompt, retrieved_docs, used_chunks, strategy, raw_response, test_cases, result, backend_calls, envVars, genVars, logVars, ctxVars, stepVars, kbVars, edges>>

AddEdge ==
    /\ pc = "graph_built"
    /\ Len(edges) < MaxEdges
    /\ \E from_id \in ElementIds, to_id \in ElementIds :
        edges' = add_edge(edges, from_id, to_id, "None")
    /\ UNCHANGED <<pc, prompt, retrieved_docs, used_chunks, strategy, raw_response, test_cases, result, backend_calls, envVars, genVars, logVars, ctxVars, stepVars, kbVars, nodes>>

TopologicalSort ==
    /\ pc = "graph_built"
    /\ result' = [kind |-> "fill_order", order |-> topological_sort(nodes, edges)]
    /\ pc' = "graph_sorted"
    /\ UNCHANGED <<prompt, retrieved_docs, used_chunks, strategy, raw_response, test_cases, backend_calls, envVars, genVars, logVars, auxVars>>

NextGraph == AddNode \/ AddEdge \/ TopologicalSort

SpecGraph == InitGraph /\ [][NextGraph]_vars

\* the number of places of order that hold n
Occurrences(order, n) == Cardinality({i \in 1..Len(order) : order[i] = n})

\* C15: whatever add_node and add_edge calls built the graph, cycles and edges from
\* ids that are no node included, every node id occurs exactly once in the list
\* topological_sort returns.
C15_EveryNodeExactlyOnce ==
    pc = "graph_sorted" => \A n \in NodeIdSet(nodes) : Occurrences(result.order, n) = 1

\* the returned list holds node ids only and none twice
FillOrderWithoutRepeats ==
    pc = "graph_sorted" =>
        /\ \A i \in 1..Len(result.order) : result.order[i] \in NodeIdSet(nodes)
        /\ \A n \in NodeIdSet(nodes) : Occurrences(result.order, n) <= 1

\* a node is missing exactly when an edge from an id that is no node, or from a
\* missing node, points at it
MissingOnlyBehindUnservedEdge ==
    pc = "graph_sorted" =>
        \A n \in NodeIdSet(nodes) :
            Occurrences(result.order, n) = 0 <=>
                \E i \in 1..Len(edges) : edges[i].to = n /\ Occurrences(result.order, edges[i].from) = 0

(***************************************************************************)
(* The schema of the returned cases                                        *)
(***************************************************************************)
\* config_semantic.py:43-46, the members of TestType
TestTypes == {"positive", "negative", "edge_case"}

\* the seven required fields of a case are present and non-empty and test_steps is a list
RequiredFieldsFilled(tc) ==
    /\ tc.test_id # <<>> /\ tc.feature # <<>> /\ tc.test_scenario # <<>> /\ tc.expected_result # <<>>
    /\ tc.steps_is_list /\ tc.test_steps # <<>>
    /\ tc.test_type # "" /\ tc.priority # ""

\* C16: every case generate_test_cases returns has the seven required fields present and
\* non-empty, test_steps as a list, test_type in {positive, negative, edge_case} and
\* priority in {high, medium, low}, whatever the model wrote in those fields.
C16_ReturnedCasesMeetSchema ==
    (pc = "returned" /\ result.kind = "returned") =>
        \A i \in 1..Len(result.test_cases) :
            /\ RequiredFieldsFilled(result.test_cases[i])
            /\ result.test_cases[i].test_type \in TestTypes
            /\ result.test_cases[i].priority \in ValidPriorities

\* the same with the set of line 41, which has "boundary" as a fourth member
ReturnedCasesMeetCodeSchema ==
    (pc = "returned" /\ result.kind = "returned") =>
        \A i \in 1..Len(result.test_cases) :
            /\ RequiredFieldsFilled(result.test_cases[i])
            /\ result.test_cases[i].test_type \in ValidTestTypes
            /\ result.test_cases[i].priority \in ValidPriorities

\* a type and a priority the schema does not know come back as positive and medium
UnknownTypeCoerced ==
    (Succeeded /\ raw_response = TypedBatch) =>
        \A i \in 1..Len(result.test_cases) :
            result.test_cases[i].test_scenario = <<"A","p","p","l","y"," ","d","i","s","c","o","u","n","t"," ","c","o","d","e"," ","S","A","V","E","1","0"," ","t","w","i","c","e"," ","a","t"," ","c","h","e","c","k","o","u","t">> =>
                result.test_cases[i].test_type = "positive" /\ result.test_cases[i].priority = "medium"

UnknownTypeReturned ==
    Succeeded /\ raw_response = TypedBatch /\ \E i \in 1..Len(result.test_cases) : result.test_cases[i].test_scenario = <<"A","p","p","l","y"," ","d","i","s","c","o","u","n","t"," ","c","o","d","e"," ","S","A","V","E","1","0"," ","t","w","i","c","e"," ","a","t"," ","c","h","e","c","k","o","u","t">>

(***************************************************************************)
(* The cap on the number of cases                                          *)
(***************************************************************************)
\* the validated form of an extracted case that was not dropped
ValidatedForm(tc, chunks) == FlagEvidence(validate_test_case_schema(tc, chunks).tc, chunks)

\* the step of lines 378-409: the cases go from the extraction into the validation loop
EntersValidation == pc = "extracted" /\ pc' = "validated"

\* C17: however many cases the normalizer extracted, the cases that come out of the
\* validation loop are validated forms of the first 10 extracted cases only, no stage
\* after the cap holds more than 10 cases, and at most 10 are returned.
C17_CapBeforeValidation ==
    /\ [](pc \in {"validated", "verified", "filtered"} => Len(test_cases) <= MAX_TEST_CASES)
    /\ [](Succeeded => Len(result.test_cases) <= MAX_TEST_CASES /\ result.count <= MAX_TEST_CASES)
    /\ [][EntersValidation =>
            \E kept \in SUBSET (1..Min({Len(test_cases), MAX_TEST_CASES})) :
                /\ Len(test_cases') = Cardinality(kept)
                /\ \A k \in 1..Len(test_cases') : \E i \in kept : test_cases'[k] = ValidatedForm(test_cases[i], used_chunks)]_vars

\* eleven cases were extracted and ten of them returned
C17_Witness ==
    /\ Succeeded /\ raw_response = LongBatch
    /\ Len(ObjectsOf(json_loads(raw_response))) = MAX_TEST_CASES + 1
    /\ Len(result.test_cases) = MAX_TEST_CASES
    /\ \A i \in 1..Len(result.test_cases) : result.test_cases[i].test_scenario = ScenarioWords[i]

(***************************************************************************)
(* The knowledge base: chunker.py, vectorstore_service.py,                 *)
(* corpus_stats_builder.py, the statistics globals of ranking.py and       *)
(* build_kb of main.py.  The three calls build_kb, load_corpus_statistics  *)
(* and calculate_bm25_score run as threads whose steps interleave; the     *)
(* store is the Chroma collection, of which upsert and query are used.     *)
(***************************************************************************)
\* chunker.py:5 and 37, the defaults of chunk_size, chunk_overlap and max_size
CHUNK_SIZE == 1000

CHUNK_OVERLAP == 200

MAX_SIZE == 5000000

\* text.replace("\r\n", "\n")
ReplaceCrLf(text) == Without(text, {i \in 1..(Len(text) - 1) : text[i] = "\r" /\ text[i + 1] = "\n"})

RECURSIVE ChunksFrom(_, _, _, _)
\* lines 24-32: the while loop from the 0-based position start
ChunksFrom(text, start, chunk_size, chunk_overlap) ==
    LET end == Min({start + chunk_size, Len(text)})
        next == IF end - chunk_overlap <= 0 THEN 1 ELSE end - chunk_overlap
    IN IF end >= Len(text) THEN <<SubSeq(text, start + 1, end)>>
       ELSE <<SubSeq(text, start + 1, end)>> \o ChunksFrom(text, next, chunk_size, chunk_overlap)

\* lines 5-34
chunk_text(text, chunk_size, chunk_overlap) ==
    IF text = <<>> THEN <<>>
    ELSE LET t == ReplaceCrLf(Take(text, MAX_SIZE))
         IN IF Len(t) <= chunk_size THEN <<t>> ELSE ChunksFrom(t, 0, chunk_size, chunk_overlap)

\* lines 40-47
WithMetadata(chunks, source) == [i \in 1..Len(chunks) |-> [text |-> chunks[i], source |-> source, chunk_id |-> source \o <<"_","_">> \o Decimal(i)]]

\* lines 37-47
chunks_with_metadata(text, source) == CHOOSE r \in {WithMetadata(chunks, source) : chunks \in {chunk_text(text, CHUNK_SIZE, CHUNK_OVERLAP)}} : TRUE

\* main.py:87-94: the chunks of every uploaded file, in upload order
ChunksOfUpload(files) == Flatten([i \in 1..Len(files) |-> chunks_with_metadata(files[i].text, files[i].filename)])

ChunkIds(chunks) == {chunks[i].chunk_id : i \in 1..Len(chunks)}

\* vectorstore_service.py:26-38: collection.upsert replaces the entries whose id is given
\* and adds the others; no entry is removed
upsert_chunks(coll, chunks) ==
    {e \in coll : e.id \notin ChunkIds(chunks)}
    \cup {[id |-> chunks[i].chunk_id, document |-> chunks[i].text, source |-> chunks[i].source] : i \in 1..Len(chunks)}

\* vectorstore_service.py:41-43, main.py:114: the 5 nearest entries
QUERY_K == 5

\* the id sets query_top_k may return: which entries are nearest is the embedder's matter
query_top_k(coll) ==
    LET ids == {e.id : e \in coll}
    IN IF Cardinality(ids) <= QUERY_K THEN {ids} ELSE {s \in SUBSET ids : Cardinality(s) = QUERY_K}

\* corpus_stats_builder.py:19-21: the terms of a chunk
ChunkTerms(chunk) == UNION {{w[i] : i \in 1..Len(w)} : w \in {Words(lower(chunk.text))}}

\* corpus_stats_builder.py:17-22: the number of chunks each term occurs in
DfMapOf(terms) == {[term |-> t, df |-> Cardinality({i \in 1..Len(terms) : t \in terms[i]})] : t \in UNION {terms[i] : i \in 1..Len(terms)}}

\* corpus_stats_builder.py:17-29: total_docs and df_map of a chunk list
CorpusStatsOf(chunks) ==
    [total_docs |-> Len(chunks),
     df_map |-> CHOOSE r \in {DfMapOf(terms) : terms \in {[i \in 1..Len(chunks) |-> ChunkTerms(chunks[i])]}} : TRUE]

\* the file after json.dump and close
StatsFileOf(chunks) == [state |-> "complete"] @@ CorpusStatsOf(chunks)

\* the uploads of the build_kb requests; the file names of one upload differ
Uploads ==
    {<<[filename |-> PromoChunk.source, text |-> PromoChunk.text]>>,
     <<[filename |-> PromoChunk.source, text |-> <<"D","i","s","c","o","u","n","t"," ","c","o","d","e"," ","S","A","V","E","2","0"," ","g","i","v","e","s"," ","2","0","%"," ","o","f","f">>], [filename |-> <<"r","e","f","u","n","d",".","m","d">>, text |-> <<"R","e","f","u","n","d"," ","t","h","e"," ","d","i","s","c","o","u","n","t"," ","w","i","t","h","i","n"," ","1","0"," ","d","a","y","s">>]>>,
     <<[filename |-> GiftChunk.source, text |-> GiftChunk.text], [filename |-> <<"e","m","p","t","y",".","m","d">>, text |-> <<>>]>>}

MaxBuilds == 2

\* the arguments of the scoring call
ScoreQuery == <<"d","i","s","c","o","u","n","t"," ","c","o","d","e">>

ScoreDocument == PromoChunk.text

\* DF_MAP.get(term, 0) on a given map
DfIn(df_map, term) == IF \E e \in df_map : e.term = term THEN (CHOOSE e \in df_map : e.term = term).df ELSE 0

\* ranking.py:41-49: the sum over the query terms, on the values the call read at
\* lines 39 and 44, in thousandths
Bm25Sum(query_terms, terms, total_docs, dfs) ==
    LET tf == [term \in query_terms |-> Cardinality({i \in DOMAIN terms : terms[i] = term})]
        part == [term \in query_terms |->
                    IF tf[term] > 0
                    THEN ((LnMilli[1 + total_docs] - LnMilli[1 + DfIn(dfs, term)] + 1000) * 10000 * tf[term]) \div (4000 * tf[term] + 1500 + 9 * Len(terms))
                    ELSE 0]
    IN SumOver(query_terms, part)

\* ranking.py:32-51
Bm25Of(query, document, total_docs, dfs) ==
    CHOOSE r \in {Bm25Sum({q[i] : i \in 1..Len(q)}, Words(lower(document)), total_docs, dfs) : q \in {Words(lower(query))}} : TRUE

QueryTerms(query) == UNION {{w[i] : i \in 1..Len(w)} : w \in {Words(lower(query))}}

\* ranking.py:32-33: the scoring calls of the process, with the terms lines 32 and 33
\* find in their query and document
ScoreCalls == {[query |-> ScoreQuery, document |-> ScoreDocument, query_terms |-> QueryTerms(ScoreQuery), doc_terms |-> Words(lower(ScoreDocument))]}

\* tf > 0 at line 43
Occurs(term, terms) == \E i \in 1..Len(terms) : terms[i] = term

\* the process starts with an empty store and no statistics file, or with what a build
\* of an earlier run left on disk; the import of ranking.py has reached line 223
InitKb ==
    /\ pc = "kb"
    /\ kb_pc = [build |-> "idle", load |-> "called", score |-> "idle", imported |-> FALSE]
    /\ \E earlier \in {<<>>} \cup Uploads :
        /\ collection = upsert_chunks({}, ChunksOfUpload(earlier))
        /\ stats_file = IF earlier = <<>> THEN [state |-> "absent"] ELSE StatsFileOf(ChunksOfUpload(earlier))
    /\ all_chunks = <<>> /\ builds = 0
    /\ data = [none |-> TRUE] /\ score_total_docs = 0 /\ term_df = {} /\ pending_terms = {} /\ query_result = {}
    /\ corpus_stats = [none |-> TRUE] /\ score_doc_terms = <<>>
    /\ DF_MAP = {} /\ TOTAL_DOCS = 0
    /\ prompt = ScoreQuery /\ retrieved_docs = <<[text |-> ScoreDocument]>>
    /\ used_chunks = <<>> /\ strategy = [none |-> TRUE]
    /\ raw_response = <<>> /\ test_cases = <<>> /\ result = [kind |-> "none"] /\ backend_calls = 0
    /\ AIML_AVAILABLE = TRUE /\ zero_cost_answer = FALSE /\ doc_type_answer = <<>> /\ matcher_importable = TRUE
    /\ LLM_PROVIDER = "ollama" /\ GenIdle /\ LogIdle /\ CtxIdle /\ StepIdle /\ GraphIdle

\* main.py:81-103, corpus_stats_builder.py:17-31: the chunks of the upload are upserted
\* and their statistics computed; the process serves requests once its modules are imported
BuildKb ==
    /\ kb_pc.build = "idle" /\ kb_pc.imported /\ builds < MaxBuilds
    /\ \E files \in Uploads :
        /\ all_chunks' = ChunksOfUpload(files)
        /\ collection' = upsert_chunks(collection, all_chunks')
        /\ corpus_stats' = CorpusStatsOf(all_chunks')
    /\ builds' = builds + 1
    /\ kb_pc' = [kb_pc EXCEPT !.build = "upserted"]
    /\ UNCHANGED <<pc, prompt, retrieved_docs, used_chunks, strategy, raw_response, test_cases, result, backend_calls, envVars, genVars, logVars, ctxVars, stepVars, graphVars,
                   stats_file, data, score_total_docs, term_df, pending_terms, query_result, score_doc_terms>>

\* corpus_stats_builder.py:33: open(CORPUS_STATS_FILE, 'w') empties the file; until
\* json.dump has written its last piece the file holds a proper prefix of the new text
OpenStatsFile ==
    /\ kb_pc.build = "upserted"
    /\ stats_file' = [state |-> "partial"]
    /\ kb_pc' = [kb_pc EXCEPT !.build = "writing"]
    /\ UNCHANGED <<pc, prompt, retrieved_docs, used_chunks, strategy, raw_response, test_cases, result, backend_calls, envVars, genVars, logVars, ctxVars, stepVars, graphVars,
                   collection, all_chunks, builds, data, score_total_docs, term_df, pending_terms, query_result, corpus_stats, score_doc_terms>>

\* corpus_stats_builder.py:33-36, main.py:103: the file is complete, build_kb returns
WriteStatsFile ==
    /\ kb_pc.build = "writing"
    /\ stats_file' = [state |-> "complete"] @@ corpus_stats
    /\ kb_pc' = [kb_pc EXCEPT !.build = "idle"]
    /\ UNCHANGED <<pc, prompt, retrieved_docs, used_chunks, strategy, raw_response, test_cases, result, backend_calls, envVars, genVars, logVars, ctxVars, stepVars, graphVars,
                   collection, all_chunks, builds, data, score_total_docs, term_df, pending_terms, query_result, corpus_stats, score_doc_terms>>

\* a caller invokes load_corpus_statistics() again
ReloadCall ==
    /\ kb_pc.load = "idle" /\ kb_pc.imported
    /\ kb_pc' = [kb_pc EXCEPT !.load = "called"]
    /\ UNCHANGED <<pc, prompt, retrieved_docs, used_chunks, strategy, raw_response, test_cases, result, backend_calls, envVars, genVars, logVars, ctxVars, stepVars, graphVars,
                   collection, stats_file, all_chunks, builds, data, score_total_docs, term_df, pending_terms, query_result, corpus_stats, score_doc_terms>>

\* ranking.py:19-22, 26-27: no file, or a file json.load cannot parse, leaves the globals
\* as they are
LoadFile ==
    /\ kb_pc.load = "called"
    /\ IF stats_file.state = "complete"
       THEN /\ data' = [df_map |-> stats_file.df_map, total_docs |-> stats_file.total_docs]
            /\ kb_pc' = [kb_pc EXCEPT !.load = "parsed"]
       ELSE /\ kb_pc' = [kb_pc EXCEPT !.load = "idle", !.imported = TRUE]
            /\ UNCHANGED data
    /\ UNCHANGED <<pc, prompt, retrieved_docs, used_chunks, strategy, raw_response, test_cases, result, backend_calls, envVars, genVars, logVars, ctxVars, stepVars, graphVars,
                   collection, stats_file, all_chunks, builds, score_total_docs, term_df, pending_terms, query_result, corpus_stats, score_doc_terms>>

\* ranking.py:23
AssignDfMap ==
    /\ kb_pc.load = "parsed"
    /\ DF_MAP' = data.df_map
    /\ kb_pc' = [kb_pc EXCEPT !.load = "df_map_assigned"]
    /\ UNCHANGED <<pc, prompt, retrieved_docs, used_chunks, strategy, raw_response, test_cases, result, backend_calls, genVars, logVars, ctxVars, stepVars, graphVars,
                   AIML_AVAILABLE, zero_cost_answer, doc_type_answer, matcher_importable, TOTAL_DOCS, LLM_PROVIDER,
                   collection, stats_file, all_chunks, builds, data, score_total_docs, term_df, pending_terms, query_result, corpus_stats, score_doc_terms>>

\* ranking.py:24-25
AssignTotalDocs ==
    /\ kb_pc.load = "df_map_assigned"
    /\ TOTAL_DOCS' = data.total_docs
    /\ kb_pc' = [kb_pc EXCEPT !.load = "idle", !.imported = TRUE]
    /\ UNCHANGED <<pc, prompt, retrieved_docs, used_chunks, strategy, raw_response, test_cases, result, backend_calls, genVars, logVars, ctxVars, stepVars, graphVars,
                   AIML_AVAILABLE, zero_cost_answer, doc_type_answer, matcher_importable, DF_MAP, LLM_PROVIDER,
                   collection, stats_file, all_chunks, builds, data, score_total_docs, term_df, pending_terms, query_result, corpus_stats, score_doc_terms>>

\* ranking.py:30-39: a scoring call of hybrid_rank_chunks, once the module is imported
ScoreCall ==
    /\ kb_pc.score \in {"idle", "returned"} /\ kb_pc.imported
    /\ score_total_docs' = Max({TOTAL_DOCS, 1})
    /\ \E call \in ScoreCalls :
        /\ call.query = prompt /\ call.document = retrieved_docs[1].text
        /\ pending_terms' = call.query_terms
        /\ score_doc_terms' = call.doc_terms
    /\ term_df' = {}
    /\ kb_pc' = [kb_pc EXCEPT !.score = "loop"]
    /\ UNCHANGED <<pc, prompt, retrieved_docs, used_chunks, strategy, raw_response, test_cases, result, backend_calls, envVars, genVars, logVars, ctxVars, stepVars, graphVars,
                   collection, stats_file, all_chunks, builds, data, query_result, corpus_stats>>

\* ranking.py:41-44: the next term of the set, in whatever order the set gives them
ScoreTerm ==
    /\ kb_pc.score = "loop"
    /\ \E term \in pending_terms :
        /\ pending_terms' = pending_terms \ {term}
        /\ term_df' = IF Occurs(term, score_doc_terms) THEN term_df \cup {[term |-> term, df |-> DfOf(term)]} ELSE term_df
    /\ UNCHANGED <<pc, prompt, retrieved_docs, used_chunks, strategy, raw_response, test_cases, result, backend_calls, envVars, genVars, logVars, ctxVars, stepVars, graphVars,
                   kb_pc, collection, stats_file, all_chunks, builds, data, score_total_docs, query_result, corpus_stats, score_doc_terms>>

\* ranking.py:45-51
ScoreReturn ==
    /\ kb_pc.score = "loop" /\ pending_terms = {}
    /\ result' = [kind |-> "bm25", score |-> Bm25Sum({e.term : e \in term_df}, score_doc_terms, score_total_docs, term_df)]
    /\ kb_pc' = [kb_pc EXCEPT !.score = "returned"]
    /\ UNCHANGED <<pc, prompt, retrieved_docs, used_chunks, strategy, raw_response, test_cases, backend_calls, envVars, genVars, logVars, ctxVars, stepVars, graphVars,
                   collection, stats_file, all_chunks, builds, data, score_total_docs, term_df, pending_terms, query_result, corpus_stats, score_doc_terms>>

\* main.py:105-116
QueryKb ==
    /\ kb_pc.imported
    /\ \E ids \in query_top_k(collection) : query_result' = ids
    /\ UNCHANGED <<pc, prompt, retrieved_docs, used_chunks, strategy, raw_response, test_cases, result, backend_calls, envVars, genVars, logVars, ctxVars, stepVars, graphVars,
                   kb_pc, collection, stats_file, all_chunks, builds, data, score_total_docs, term_df, pending_terms, corpus_stats, score_doc_terms>>

NextKb ==
    \/ BuildKb
    \/ OpenStatsFile
    \/ WriteStatsFile
    \/ ReloadCall
    \/ LoadFile
    \/ AssignDfMap
    \/ AssignTotalDocs
    \/ ScoreCall
    \/ ScoreTerm
    \/ ScoreReturn
    \/ QueryKb

SpecKb == InitKb /\ [][NextKb]_vars

\* the server process as the repository runs it: load_corpus_statistics is called at the
\* import of ranking.py (line 223) and nowhere else
NextKbProcess ==
    \/ BuildKb
    \/ OpenStatsFile
    \/ WriteStatsFile
    \/ LoadFile
    \/ AssignDfMap
    \/ AssignTotalDocs
    \/ ScoreCall
    \/ ScoreTerm
    \/ ScoreReturn

SpecKbProcess == InitKb /\ [][NextKbProcess]_vars

\* the steps of a call that has begun are taken, and scoring calls keep coming; build_kb
\* requests come when a client sends them
FairSpecKbProcess ==
    /\ SpecKbProcess
    /\ WF_vars(OpenStatsFile \/ WriteStatsFile)
    /\ WF_vars(LoadFile \/ AssignDfMap \/ AssignTotalDocs)
    /\ WF_vars(ScoreCall \/ ScoreTerm \/ ScoreReturn)

\* the scoring call read, at lines 39 and 44, the values these statistics give
ReadsMatch(stats) ==
    /\ score_total_docs = Max({stats.total_docs, 1})
    /\ \A e \in term_df : e.df = DfIn(stats.df_map, e.term)

\* a build_kb request of this process has returned
KbBuilt == kb_pc.build = "idle" /\ builds > 0

\* a scoring call has returned that read the statistics of the build handled last
ScoredAgainstLatestBuild ==
    /\ KbBuilt /\ kb_pc.score = "returned"
    /\ \E stats \in {CorpusStatsOf(all_chunks)} :
        /\ ReadsMatch(stats)
        /\ result = [kind |-> "bm25", score |-> Bm25Of(prompt, retrieved_docs[1].text, Max({stats.total_docs, 1}), stats.df_map)]

\* C18: once a knowledge-base build has completed in the running process, a later scoring
\* call eventually computes BM25 with the df_map and total_docs of the most recent build.
C18_ScoringFollowsBuild == KbBuilt ~> ScoredAgainstLatestBuild

\* the statistics globals change in load_corpus_statistics only
GlobalsSetByLoadOnly ==
    [][(DF_MAP' # DF_MAP => kb_pc.load = "parsed" /\ DF_MAP' = data.df_map) /\ (TOTAL_DOCS' # TOTAL_DOCS => kb_pc.load = "df_map_assigned" /\ TOTAL_DOCS' = data.total_docs)]_vars

\* the statistics a scoring call can meet: those of ranking.py:11-12 and those of a build
BuildStatistics == {[total_docs |-> 0, df_map |-> {}]} \cup {CorpusStatsOf(ChunksOfUpload(files)) : files \in Uploads}

ParsedFileIsOneBuild ==
    "df_map" \in DOMAIN data => [total_docs |-> data.total_docs, df_map |-> data.df_map] \in BuildStatistics

\* a scoring call during which no assignment of load_corpus_statistics falls computes the
\* value of calculate_bm25_score
UndisturbedScoreIsBm25 ==
    (kb_pc.score = "returned" /\ ReadsMatch([total_docs |-> TOTAL_DOCS, df_map |-> DF_MAP])) => result.score = calculate_bm25_score(prompt, retrieved_docs[1].text)

\* C20: after any sequence of builds the store holds exactly the chunks of the most recent
\* build, and a query returns no chunk of an earlier build that the latest build lacks.
C20_StoreHoldsLatestBuild ==
    /\ [](KbBuilt => collection = upsert_chunks({}, all_chunks))
    /\ [][(KbBuilt /\ query_result' # query_result) => query_result' \subseteq ChunkIds(all_chunks)]_vars

\* the store holds the chunks of the most recent build, and whatever else it held before
StoreHoldsAtLeastLatestBuild ==
    kb_pc.build # "idle" \/ builds > 0 => upsert_chunks({}, all_chunks) \subseteq collection

(***************************************************************************)
(* _generate_generic_fallback: the elements a generated test fills          *)
(***************************************************************************)
\* the lines that fill, select or check an element
FillKinds == {"fill_input_field", "select_dropdown_option", "check_checkbox", "select_radio"}

\* the positions of the body that fill, select or check the element id
FillsOf(id) == {j \in 1..Len(body) : body[j].kind \in FillKinds /\ body[j].target = id}

\* the lines the final-action rule writes for the inputs and checkboxes that are still open
\* (lines 865-883): they stand between the lines of a step without a comment before them
FinalFillLine(j) ==
    /\ body[j].kind \in {"fill_input_field", "check_checkbox"}
    /\ \A i \in 1..(j - 1) : body[i].step = body[j].step => body[i].kind \in {"fill_input_field", "check_checkbox"}

\* C23: within the lines generated for one test no input, select, checkbox or radio id
\* is the target of more than one fill, select or check line, whatever the steps are and
\* also when a later step is taken as a final action
C23_NoElementFilledTwice ==
    \A j \in 1..Len(body) : body[j].kind \in FillKinds => Cardinality(FillsOf(body[j].target)) = 1

\* what the set filled_fields does give: an element that one of the rules 2 to 8 matched
\* is in filled_fields and is the target of no other line of rules 2 to 8, and of no
\* final-action line of a later step
MatchedElementNotMatchedAgain ==
    \A j \in 1..Len(body) :
        (body[j].kind \in FillKinds /\ ~FinalFillLine(j)) =>
            /\ body[j].target \in filled_fields
            /\ \A i \in FillsOf(body[j].target) : i # j => (FinalFillLine(i) /\ i < j)

\* the final-action rule does not add what it fills to filled_fields
FinalFillsLeftUnmarked ==
    [][(MapAction /\ \E j \in (Len(body) + 1)..Len(body') : body'[j].kind \in FillKinds /\ body'[j].target \notin filled_fields') => filled_fields' = filled_fields]_vars

(***************************************************************************)
(* deterministic_selenium_generator.py: _find_submit_button_semantic and    *)
(* _generate_final_verification.  The similarity of each button to the      *)
(* submit intents is what the embedding model gives, in units of 0.0001;    *)
(* the model may also fail.                                                 *)
(***************************************************************************)
\* config_semantic.py:49-53
NEGATIVE_ACTIONS ==
    {<<"c","a","n","c","e","l">>, <<"b","a","c","k">>, <<"c","l","o","s","e">>, <<"a","b","o","r","t">>, <<"d","i","s","m","i","s","s">>, <<"e","x","i","t">>, <<"q","u","i","t">>, <<"r","e","j","e","c","t">>, <<"d","e","c","l","i","n","e">>, <<"d","e","l","e","t","e">>, <<"r","e","m","o","v","e">>, <<"d","i","s","c","a","r","d">>, <<"c","l","e","a","r">>, <<"r","e","s","e","t">>}

\* config_semantic.py:7, THRESHOLDS['submit_button'], in units of 0.0001
SUBMIT_THRESHOLD == 3000

\* line 1125: any(neg in btn_text or neg in btn_id for neg in NEGATIVE_ACTIONS)
IsNegativeAction(btn) == \E neg \in NEGATIVE_ACTIONS : Contains(lower(btn.text), neg) \/ Contains(lower(btn.id), neg)

\* lines 1080-1102: the buttons that have a description
HasDescription(btn) == btn.text # <<>> \/ btn.onclick # <<>> \/ btn.id # <<>> \/ btn.class # <<>>

\* lines 1128-1134: the similarity with its boosts, times 1000
Boosted(btn, similarity) ==
    similarity * (IF btn.type = "button" THEN 11 ELSE 10) * (IF btn.onclick # <<>> THEN 115 ELSE 100)

\* lines 1056-1147; answer.failed: the embedding model raised; answer.sims[k]: the
\* similarity of buttons[k].  The result names the button (<<>> for None), the return
\* statement that gave it and the score it was chosen with.
find_submit_button_semantic(buttons, answer) ==
    LET typed == {k \in 1..Len(buttons) : buttons[k].type = "submit"}
        valid == {k \in 1..Len(buttons) : HasDescription(buttons[k])}
        ranked == {k \in valid : ~IsNegativeAction(buttons[k]) /\ Boosted(buttons[k], answer.sims[k]) > -10000 * 1000}
        best_score == Max({Boosted(buttons[k], answer.sims[k]) : k \in ranked})
        best == Min({k \in ranked : Boosted(buttons[k], answer.sims[k]) = best_score})
        last == [button |-> <<buttons[Len(buttons)]>>, by |-> "last", score |-> 0]
    IN IF buttons = <<>> THEN [button |-> <<>>, by |-> "none", score |-> 0]
       ELSE IF typed # {} THEN [button |-> <<buttons[Min(typed)]>>, by |-> "type", score |-> 0]
       ELSE IF answer.failed THEN last
       ELSE IF valid = {} THEN [button |-> <<>>, by |-> "none", score |-> 0]
       ELSE IF ranked # {} /\ best_score > SUBMIT_THRESHOLD * 1000 THEN [button |-> <<buttons[best]>>, by |-> "score", score |-> best_score]
       ELSE last

\* html_structure.get('success_elements', []), the first of them or <<>>
SuccessElem(structure) ==
    IF "success_elements" \in DOMAIN structure /\ structure.success_elements # <<>> THEN <<structure.success_elements[1]>> ELSE <<>>

\* lines 925-934 and 954-962: the click on the submit button
SubmitClick(btn, wait_first) ==
    IF btn.id # <<>> THEN (IF wait_first THEN <<Line(0, "wait_button_enabled", btn.id, <<>>)>> ELSE <<>>) \o <<Line(0, "click_button", btn.id, <<>>)>>
    ELSE IF btn.text # <<>> THEN <<Line(0, "click_button_by_text", btn.text, <<>>)>>
    ELSE IF btn.class # <<>> THEN <<Line(0, "click_button_by_class", FirstClass(btn), <<>>)>>
    ELSE <<>>

\* lines 911-966: the lines of the final verification block, step 0 standing for the block
FinalVerificationLines(submit, success) ==
    (IF submit # <<>> /\ success # <<>>
     THEN <<Line(0, "comment", <<"S","u","b","m","i","t"," ","f","o","r","m"," ","a","n","d"," ","v","e","r","i","f","y">>, <<>>)>> \o SubmitClick(submit[1], submit[1].disabled) \o <<Line(0, "blank", <<>>, <<>>)>>
     ELSE <<>>)
    \o (IF success # <<>> /\ success[1].id # <<>>
        THEN <<Line(0, "comment", <<"V","e","r","i","f","y"," ","s","u","c","c","e","s","s">>, <<>>), Line(0, "wait_for_element", success[1].id, <<>>),
               Line(0, "get_element_text", success[1].id, <<>>), Line(0, "assert_confirmation", <<>>, <<>>)>>
             \o (IF success[1].text_content # <<>> THEN <<Line(0, "assert_expected", success[1].text_content, <<>>)>> ELSE <<>>)
        ELSE IF submit # <<>>
        THEN <<Line(0, "comment", <<"S","u","b","m","i","t"," ","f","o","r","m">>, <<>>)>> \o SubmitClick(submit[1], submit[1].disabled)
        ELSE <<Line(0, "comment", <<"N","o"," ","s","u","b","m","i","t"," ","b","u","t","t","o","n"," ","d","e","t","e","c","t","e","d">>, <<>>)>>)

\* the buttons of the pages _generate_final_verification is run on
SubmitButtons ==
    {Button(<<"s","a","v","e">>, <<"S","a","v","e">>, <<"b","t","n">>, <<>>, "button", FALSE),
     Button(<<"p","a","y","-","n","o","w">>, <<"P","a","y"," ","n","o","w">>, <<"b","t","n"," ","p","r","i","m","a","r","y">>, <<"c","h","e","c","k","o","u","t","(",")">>, "button", TRUE),
     Button(<<>>, <<"C","a","n","c","e","l">>, <<"b","t","n","-","c","a","n","c","e","l">>, <<>>, "button", FALSE),
     Button(<<"r","e","s","e","t","_","f","o","r","m">>, <<"S","t","a","r","t"," ","o","v","e","r">>, <<>>, <<>>, "reset", FALSE),
     Button(<<"s","e","n","d">>, <<"S","e","n","d">>, <<"b","t","n">>, <<>>, "submit", FALSE),
     Button(<<>>, <<>>, <<>>, <<>>, "", FALSE)}

SuccessElements == {<<>>, <<[id |-> <<"r","e","s","u","l","t">>, text_content |-> <<"O","r","d","e","r"," ","p","l","a","c","e","d">>]>>, <<[id |-> <<>>, text_content |-> <<>>]>>}

MaxButtons == 2

\* the similarities the embedding model may give a button
SubmitSims == {2000, 2800, 4000}

SubmitAnswers(buttons) ==
    {[failed |-> TRUE, sims |-> [k \in 1..Len(buttons) |-> 0]]} \cup {[failed |-> FALSE, sims |-> sims] : sims \in [1..Len(buttons) -> SubmitSims]}

InitSubmit ==
    /\ pc = "final_verification"
    /\ \E buttons \in SeqsUpTo(SubmitButtons, MaxButtons), success \in SuccessElements :
           html_structure = [buttons |-> buttons, success_elements |-> success]
    /\ normalized_steps = <<>> /\ step_index = 0 /\ body = <<>> /\ filled_fields = {} /\ verdicts = <<>>
    /\ prompt = <<>> /\ retrieved_docs = <<>> /\ used_chunks = <<>> /\ strategy = [none |-> TRUE]
    /\ raw_response = <<>> /\ test_cases = <<>> /\ result = [kind |-> "none"] /\ backend_calls = 0
    /\ AIML_AVAILABLE = TRUE /\ zero_cost_answer = FALSE /\ doc_type_answer = <<>> /\ matcher_importable = TRUE /\ DF_MAP = {} /\ TOTAL_DOCS = 0
    /\ LLM_PROVIDER = "ollama" /\ GenIdle /\ LogIdle /\ CtxIdle /\ GraphIdle /\ KbIdle

\* lines 911-966: _generate_final_verification, called on its own or at line 389 of
\* _generate_test_body_from_steps; result keeps what _find_submit_button_semantic
\* returned at line 914
FinalVerification ==
    /\ pc \in {"final_verification", "script_mapped", "fallback_done"}
    /\ \E answer \in SubmitAnswers(html_structure.buttons) :
        \E found \in {find_submit_button_semantic(html_structure.buttons, answer)} :
            /\ result' = [kind |-> "submit_button"] @@ found
            /\ body' = body \o FinalVerificationLines(found.button, SuccessElem(html_structure))
    /\ pc' = IF pc = "final_verification" THEN "final_done" ELSE "script_done"
    /\ UNCHANGED <<prompt, retrieved_docs, used_chunks, strategy, raw_response, test_cases, backend_calls, envVars, genVars, logVars, ctxVars, graphVars, kbVars,
                   html_structure, normalized_steps, step_index, filled_fields, verdicts>>

NextSubmit == FinalVerification

SpecSubmit == InitSubmit /\ [][NextSubmit]_vars

ClickKinds == {"click_button", "click_button_by_text", "click_button_by_class", "click_button_by_onclick"}

NoSubmitType == \A k \in 1..Len(html_structure.buttons) : html_structure.buttons[k].type # "submit"

\* C26: when no button has type submit, the button resolved as the submit button is
\* never a negative-action button and is resolved only with a boosted similarity above
\* 0.30; otherwise no button is resolved and no submit click is emitted
C26_SemanticSubmitNeverNegative ==
    (pc = "final_done" /\ NoSubmitType) =>
        \/ /\ result.button # <<>>
           /\ ~IsNegativeAction(result.button[1])
           /\ result.by = "score" /\ result.score > SUBMIT_THRESHOLD * 1000
        \/ /\ result.button = <<>>
           /\ \A j \in 1..Len(body) : body[j].kind \notin ClickKinds

\* what the ranking of lines 1121-1142 gives: a button chosen by its score is no
\* negative-action button and its boosted similarity is above 0.30; every other button
\* returned when none has type submit is the last button of the page (line 1147)
ScoredSubmitNotNegative ==
    (pc = "final_done" /\ NoSubmitType /\ result.button # <<>>) =>
        \/ result.by = "score" /\ ~IsNegativeAction(result.button[1]) /\ result.score > SUBMIT_THRESHOLD * 1000
        \/ result.by = "last" /\ result.button[1] = html_structure.buttons[Len(html_structure.buttons)]

\* the last button is returned although it is a negative-action button
NegativeSubmitClicked ==
    /\ pc = "final_done" /\ NoSubmitType /\ result.button # <<>> /\ IsNegativeAction(result.button[1])
    /\ \E j \in 1..Len(body) : body[j].kind \in ClickKinds

(***************************************************************************)
(* deterministic_selenium_generator.py, lines 360-391:                     *)
(* _generate_test_body_from_steps asks the backend for the actions of the  *)
(* steps (generators.py, generate_step_actions), writes them with          *)
(* _generate_action_code or falls back to _generate_generic_fallback, and  *)
(* appends the final verification block.                                   *)
(***************************************************************************)

\* generators.py, lines 307-328: actions is what aggressive_json_extraction
\* returns, a str; the list test of line 317 is made on that value
generate_step_actions(response) ==
    LET actions == JStr(aggressive_json_extraction(response))
    IN IF actions.t = "list" /\ Len(actions.items) > 0 THEN actions.items ELSE <<>>

\* action.get(key) is true
Truthy(action, key) ==
    /\ HasKey(action, key)
    /\ \/ Lookup(action, key).t = "lit" /\ Lookup(action, key).s = <<"t","r","u","e">>
       \/ Lookup(action, key).t = "str" /\ Lookup(action, key).s # <<>>
       \/ Lookup(action, key).t = "num" /\ Lookup(action, key).s # <<"0">>
       \/ Lookup(action, key).t \in {"list", "dict"} /\ Lookup(action, key).items # <<>>

\* the keys action[key] is read with for a type; a missing one raises KeyError
RequiredKeys(action_type) ==
    CASE action_type = <<"f","i","l","l","_","i","n","p","u","t">> -> {<<"f","i","e","l","d","_","i","d">>, <<"v","a","l","u","e">>}
      [] action_type = <<"s","e","l","e","c","t","_","d","r","o","p","d","o","w","n">> -> {<<"f","i","e","l","d","_","i","d">>, <<"o","p","t","i","o","n">>}
      [] action_type = <<"c","h","e","c","k","_","c","h","e","c","k","b","o","x">> -> {<<"f","i","e","l","d","_","i","d">>}
      [] action_type = <<"c","l","i","c","k","_","b","u","t","t","o","n">> -> {<<"b","u","t","t","o","n","_","i","d">>}
      [] action_type = <<"w","a","i","t","_","a","n","d","_","v","e","r","i","f","y">> -> {<<"e","l","e","m","e","n","t","_","i","d">>}
      [] OTHER -> {}

\* lines 437-472: _generate_action_code for the k-th action; ok is FALSE where the
\* call raises.  The ids and values of the actions are strings.
generate_action_code(k, action) ==
    LET action_type == TextOf(action, <<"t","y","p","e">>)
        comment == IF Truthy(action, <<"c","o","m","m","e","n","t">>) THEN <<Line(k, "comment", TextOf(action, <<"c","o","m","m","e","n","t">>), <<>>)>> ELSE <<>>
        code ==
            CASE action_type = <<"f","i","l","l","_","i","n","p","u","t">> -> <<Line(k, "fill_input_field", TextOf(action, <<"f","i","e","l","d","_","i","d">>), TextOf(action, <<"v","a","l","u","e">>))>>
              [] action_type = <<"s","e","l","e","c","t","_","d","r","o","p","d","o","w","n">> -> <<Line(k, "select_dropdown_option", TextOf(action, <<"f","i","e","l","d","_","i","d">>), TextOf(action, <<"o","p","t","i","o","n">>))>>
              [] action_type = <<"c","h","e","c","k","_","c","h","e","c","k","b","o","x">> -> <<Line(k, "check_checkbox", TextOf(action, <<"f","i","e","l","d","_","i","d">>), <<>>)>>
              [] action_type = <<"c","l","i","c","k","_","b","u","t","t","o","n">> ->
                   (IF Truthy(action, <<"w","a","i","t","_","e","n","a","b","l","e","d">>) THEN <<Line(k, "wait_button_enabled", TextOf(action, <<"b","u","t","t","o","n","_","i","d">>), <<>>)>> ELSE <<>>)
                   \o <<Line(k, "click_button", TextOf(action, <<"b","u","t","t","o","n","_","i","d">>), <<>>)>>
              [] action_type = <<"w","a","i","t","_","a","n","d","_","v","e","r","i","f","y">> ->
                   <<Line(k, "wait_for_element", TextOf(action, <<"e","l","e","m","e","n","t","_","i","d">>), <<>>)>>
                   \o (IF Truthy(action, <<"e","x","p","e","c","t","e","d","_","t","e","x","t">>)
                       THEN <<Line(k, "get_element_text", TextOf(action, <<"e","l","e","m","e","n","t","_","i","d">>), <<>>), Line(k, "assert_expected", TextOf(action, <<"e","x","p","e","c","t","e","d","_","t","e","x","t">>), <<>>)>>
                       ELSE <<>>)
              [] OTHER -> <<>>
    IN IF action.t # "dict" \/ \E key \in RequiredKeys(action_type) : ~HasKey(action, key)
       THEN [ok |-> FALSE, lines |-> <<>>]
       ELSE [ok |-> TRUE, lines |-> comment \o code \o <<Line(k, "blank", <<>>, <<>>)>>]

\* lines 379-381: the loop over action_mapping
MappedLines(action_mapping) ==
    [ok |-> \A k \in 1..Len(action_mapping) : generate_action_code(k, action_mapping[k]).ok,
     lines |-> Join([k \in 1..Len(action_mapping) |-> generate_action_code(k, action_mapping[k]).lines], <<>>)]

\* one action object as the backend writes it
ActionText(type, key, id) == ObjectText(<<Member(<<"t","y","p","e">>, type), Member(key, id)>>)

\* what the backend answers the step-mapping prompt with: an array of one action, an
\* array of two, the empty array, an array inside prose, and prose without JSON
ScriptResponses ==
    {ArrayText(<<ActionText(<<"c","l","i","c","k","_","b","u","t","t","o","n">>, <<"b","u","t","t","o","n","_","i","d">>, <<"s","u","b","m","i","t">>)>>),
     ArrayText(<<ActionText(<<"c","h","e","c","k","_","c","h","e","c","k","b","o","x">>, <<"f","i","e","l","d","_","i","d">>, <<"t","e","r","m","s">>), ActionText(<<"c","l","i","c","k","_","b","u","t","t","o","n">>, <<"b","u","t","t","o","n","_","i","d">>, <<"l","o","g","i","n">>)>>),
     <<LB, RB>>,
     <<<<"H","e","r","e">>, <<" ">>>> \o ArrayText(<<ActionText(<<"c","h","e","c","k","_","c","h","e","c","k","b","o","x">>, <<"f","i","e","l","d","_","i","d">>, <<"r","e","m","e","m","b","e","r">>)>>),
     <<<<"S","o","r","r","y">>>>}

\* the steps of the test cases the body is generated for
ScriptStepTexts == {<<"S","u","b","m","i","t"," ","t","h","e"," ","f","o","r","m">>, <<"E","n","t","e","r"," ","p","r","o","m","o"," ","c","o","d","e"," ","S","A","V","E","1","0">>, <<"C","l","i","c","k"," ","t","h","e"," ","b","u","t","t","o","n"," ","w","i","t","h"," ","i","d","=","\"","l","o","g","i","n","\"">>}

MaxScriptSteps == 1

\* the pages, with the success elements the parser found on them
ScriptInventories == {inv @@ [success_elements |-> success] : inv \in {FormPage, LoginPage}, success \in SuccessElements}

InitScript ==
    /\ pc = "script_call"
    /\ html_structure \in ScriptInventories
    /\ normalized_steps \in SeqsUpTo(ScriptStepTexts, MaxScriptSteps)
    /\ raw_response \in ScriptResponses
    /\ step_index = 1 /\ body = <<>> /\ filled_fields = {} /\ verdicts = <<>>
    /\ prompt = <<>> /\ retrieved_docs = <<>> /\ used_chunks = <<>> /\ strategy = [none |-> TRUE]
    /\ test_cases = <<>> /\ result = [kind |-> "none"] /\ backend_calls = 0
    /\ AIML_AVAILABLE = TRUE /\ zero_cost_answer = FALSE /\ doc_type_answer = <<>> /\ matcher_importable = TRUE /\ DF_MAP = {} /\ TOTAL_DOCS = 0
    /\ LLM_PROVIDER = "ollama" /\ GenIdle /\ LogIdle /\ CtxIdle /\ GraphIdle /\ KbIdle

\* lines 376-387: the mapping of the backend is written when it is not empty and no
\* action raises; otherwise the fallback is called
MapSteps ==
    /\ pc = "script_call"
    /\ \E action_mapping \in {generate_step_actions(raw_response)} :
        \E mapped \in {MappedLines(action_mapping)} :
            IF Len(action_mapping) > 0 /\ mapped.ok
            THEN body' = mapped.lines /\ pc' = "script_mapped"
            ELSE body' = <<>> /\ pc' = "fallback_call"
    /\ backend_calls' = backend_calls + 1
    /\ UNCHANGED <<prompt, retrieved_docs, used_chunks, strategy, raw_response, test_cases, result, envVars, genVars, logVars, ctxVars, graphVars, kbVars,
                   html_structure, normalized_steps, step_index, filled_fields, verdicts>>


\* the backend answered with a non-empty JSON array of action objects
IsActionArray(response) ==
    \E parsed \in {json_loads(response)} :
        parsed.ok /\ parsed.val.t = "list" /\ Len(parsed.val.items) > 0 /\ \A k \in 1..Len(parsed.val.items) : parsed.val.items[k].t = "dict"

\* the lines of the steps, without the final verification block
LinesOfSteps(lines) == SelectSeq(lines, LAMBDA line : line.step # 0)

\* C25: when the backend answers the step-mapping prompt with a non-empty JSON array of
\* action objects, the emitted actions are exactly that array, in its order, and the
\* deterministic classifier is not run
C25_BackendArrayEmittedInOrder ==
    (pc = "script_done" /\ IsActionArray(raw_response)) =>
        /\ LinesOfSteps(body) = MappedLines(json_loads(raw_response).val.items).lines
        /\ verdicts = <<>>

\* what lines 315-322 of generators.py give: the mapping is empty for every response, so
\* the body never comes from _generate_action_code
BackendMappingNeverUsed == generate_step_actions(raw_response) = <<>> /\ pc # "script_mapped"

\* every finished body went through the classifier of the fallback, one verdict a step
FallbackAlwaysRuns == pc = "script_done" => Len(verdicts) = Len(normalized_steps)

\* the backend answered with an array of one click action; the body holds the lines the
\* fallback wrote for the step instead
ArrayAnswerIgnored ==
    /\ pc = "script_done" /\ IsActionArray(raw_response) /\ Len(verdicts) = 1
    /\ LinesOfSteps(body) # MappedLines(json_loads(raw_response).val.items).lines

\* the line clicks the button
ClicksButton(line, btn) ==
    \/ line.kind = "click_button" /\ btn.id # <<>> /\ line.target = btn.id
    \/ line.kind = "click_button_by_text" /\ btn.id = <<>> /\ btn.text # <<>> /\ line.target = btn.text
    \/ line.kind = "click_button_by_class" /\ btn.id = <<>> /\ btn.text = <<>> /\ btn.class # <<>> /\ line.target = FirstClass(btn)

\* the lines of the body that click the button
ClicksOf(btn) == {j \in 1..Len(body) : ClicksButton(body[j], btn)}

\* C24: the final verification block comes after the actions of all steps; it clicks the
\* submit button only if no earlier step clicked it, so the button is clicked at most once
C24_SubmitClickedAtMostOnce ==
    (pc = "script_done" /\ result.button # <<>>) =>
        /\ \A i, j \in 1..Len(body) : (body[i].step = 0 /\ i < j) => body[j].step = 0
        /\ (\E j \in ClicksOf(result.button[1]) : body[j].step # 0) => (\A j \in ClicksOf(result.button[1]) : body[j].step # 0)
        /\ Cardinality(ClicksOf(result.button[1])) <= 1

\* line 389: the block is appended behind the lines of the steps
FinalBlockLast ==
    pc = "script_done" => \A i, j \in 1..Len(body) : (body[i].step = 0 /\ i < j) => body[j].step = 0

\* lines 918-962: the block clicks the resolved button whatever the steps did, unless a
\* success element with an id stands without the button being paired with it
FinalBlockClicksResolved ==
    (pc = "script_done" /\ result.button # <<>> /\ HasDescription(result.button[1]) /\ SuccessElem(html_structure) # <<>>) =>
        \E j \in ClicksOf(result.button[1]) : body[j].step = 0

\* a step clicked the submit button and the final block clicks it again
SubmitClickedTwice ==
    /\ pc = "script_done" /\ result.button # <<>>
    /\ \E i, j \in ClicksOf(result.button[1]) : body[i].step # 0 /\ body[j].step = 0

(***************************************************************************)
(* The order of the rules of _generate_generic_fallback (lines 493-909).   *)
(***************************************************************************)

RuleOrder == <<"verification", "select_action", "fallback_select", "checkbox", "text_input", "radio", "button_action", "semantic_fallback", "final_action">>

\* the place of the rule in the order; behind the last one for a step no rule took
RuleIndex(rule) == IF \E j \in 1..Len(RuleOrder) : RuleOrder[j] = rule THEN CHOOSE j \in 1..Len(RuleOrder) : RuleOrder[j] = rule ELSE Len(RuleOrder) + 1

\* what the rule alone writes for the step and leaves in filled_fields, under each
\* answer the embedding model may give inside the rule
OutcomesOfRule(rule, f, filled, so_far) ==
    CASE rule = "verification" -> {Matched(VerificationPlaceholder(f.i, f.clean_step), filled)}
      [] rule = "select_action" -> {r \in {SelectRule(f, filled, TRUE)} : r.matched}
      [] rule = "fallback_select" -> {r \in {SelectRule(f, filled, FALSE)} : r.matched}
      [] rule = "checkbox" -> {r \in {CheckboxRule(f, filled)} : r.matched}
      [] rule = "text_input" -> {r \in {InputRule(f, filled, promo) : promo \in BOOLEAN} : r.matched}
      [] rule = "radio" -> {r \in {RadioRule(f, filled, semantic) : semantic \in SUBSET Radios(filled)} : r.matched}
      [] rule = "button_action" -> {r \in {ButtonRule(f, filled)} : r.matched}
      [] rule = "semantic_fallback" -> {SemanticRule(f, filled, c) : c \in Candidates(filled)}
      [] rule = "final_action" -> {FinalRule(f, filled, so_far, submit) : submit \in SubmitChoices}
      [] OTHER -> {Unmatched(filled)}

\* the rule takes the step whatever the embedding model answers
MatchesUnasked(rule, f, filled) ==
    CASE rule = "verification" -> VerificationGate(is_verification_step(f.clean_step, [failed |-> TRUE, verification |-> 0, action |-> 0]))
      [] rule = "fallback_select" -> SelectRule(f, filled, FALSE).matched
      [] rule = "checkbox" -> CheckboxRule(f, filled).matched
      [] rule = "text_input" -> InputHit(f, filled)
      [] rule = "radio" -> RadioRule(f, filled, {}).matched
      [] OTHER -> FALSE

\* the lines of the body written for step k, and those written before it
LinesOfStep(k) == SelectSeq(body, LAMBDA line : line.step = k)

LinesBeforeStep(k) == SelectSeq(body, LAMBDA line : line.step \in 1..(k - 1))

\* filled_fields as step k left it
FilledAfter(k) == IF k < Len(verdicts) THEN verdicts[k + 1][4] ELSE filled_fields

\* C22: for every step the rules are tried in the order verification, select-action,
\* fallback select, checkbox, text input, radio, button action, generic embedding
\* fallback, final action; the first rule that matches takes the step and no later rule
\* is evaluated for it, so the lines of a step are the lines of exactly one rule or none
\* (stated for the step the loop has just left, which every step once is)
C22_FirstMatchingRuleOnly ==
    \A k \in {Len(verdicts)} \ {0} :
        pc = "fallback_call" => \E f \in {StepFacts(k, normalized_steps[k])} :
            /\ verdicts[k][3] \in {RuleOrder[j] : j \in 1..Len(RuleOrder)} \cup {"none"}
            /\ (verdicts[k][3] = "verification") = VerificationGate(<<verdicts[k][1], verdicts[k][2]>>)
            /\ \E r \in OutcomesOfRule(verdicts[k][3], f, verdicts[k][4], LinesBeforeStep(k)) :
                   r.lines = LinesOfStep(k) /\ r.filled = FilledAfter(k)
            /\ \A j \in 1..(RuleIndex(verdicts[k][3]) - 1) : ~MatchesUnasked(RuleOrder[j], f, verdicts[k][4])

\* a step taken by the text-input rule while the generic embedding fallback had elements
\* to choose from and the final-action rule a button to click: the step has the lines
\* of the text-input rule only
C22_Witness ==
    /\ pc = "fallback_done"
    /\ \E k \in 1..Len(verdicts) :
           /\ verdicts[k][3] = "text_input"
           /\ Candidates(verdicts[k][4] \cup {LinesOfStep(k)[2].target}) # {}
           /\ SubmitChoices # {<<>>}
           /\ \A j \in 1..Len(LinesOfStep(k)) : LinesOfStep(k)[j].kind \in {"comment", "fill_input_field", "click_button", "wait_for_element", "blank"}
           /\ Cardinality({j \in 1..Len(LinesOfStep(k)) : LinesOfStep(k)[j].kind = "fill_input_field"}) = 1

(***************************************************************************)
(* The values of the fill actions.  The loop of _generate_generic_fallback *)
(* writes a value that is fixed by the step and the field, or one made     *)
(* with random.randint (lines 650-656, 679-682, 841-844, 870-872); the     *)
(* module never seeds the generator.  A draw does not influence which rule *)
(* matches, so a body is the lines of the rules with a value for each fill *)
(* line.                                                                   *)
(***************************************************************************)

\* line 501: re.findall(r'\d+', clean_step)[0]
FirstNumber(s) ==
    LET starts == {i \in 1..Len(s) : IsDigit(s[i])}
    IN IF starts = {} THEN <<>> ELSE SubSeq(s, Min(starts), RunEnd(s, Min(starts), DigitSet) - 1)

\* line 678: re.search(r'\b([A-Z0-9]{4,})\b', clean_step); <<>> when there is no match
PromoCode(s) ==
    LET hits == {i \in 1..Len(s) :
                    /\ s[i] \in UpperOrDigitSet /\ (i = 1 \/ ~IsWordChar(s[i - 1]))
                    /\ RunEnd(s, i, UpperOrDigitSet) - i >= 4
                    /\ (RunEnd(s, i, UpperOrDigitSet) > Len(s) \/ ~IsWordChar(s[RunEnd(s, i, UpperOrDigitSet)]))}
    IN IF hits = {} THEN <<>> ELSE SubSeq(s, Min(hits), RunEnd(s, Min(hits), UpperOrDigitSet) - 1)

\* line 658: re.search(r'search for (.+?)(?:\s|$)', step_lower), or 'test'
SearchTerm(step_lower) ==
    LET key == <<"s","e","a","r","c","h"," ","f","o","r"," ">>
        starts == {i \in 1..(Len(step_lower) - Len(key)) : SubSeq(step_lower, i, i + Len(key) - 1) = key}
        from == Min(starts) + Len(key)
    IN IF starts = {} THEN <<"t","e","s","t">>
       ELSE SubSeq(step_lower, from, Min({j \in (from + 1)..(Len(step_lower) + 1) : j = Len(step_lower) + 1 \/ IsSpace(step_lower[j])}) - 1)

\* some of the numbers random.randint(100, 999) returns
RandomInts == {100, 999}

\* some of the digit strings ''.join(str(random.randint(0, 9)) for _ in range(n)) returns
RandomDigits(n) == {[k \in 1..n |-> "0"], [k \in 1..n |-> DecimalDigits[((3 * k) % 10) + 1]]}

\* some of the pairs (random.randint(1, 12), random.randint(1, 28)), written with :02d
RandomDates == {<<<<"0","1">>, <<"0","1">>>>, <<<<"1","2">>, <<"2","8">>>>}

\* config_semantic.py, TEST_DATA_PATTERNS, and the lines that fill the pattern: the texts
\* a value of the kind can be, clean_step being the step the line is written for
ValueTexts(kind, clean_step) ==
    CASE kind = "email" -> {<<"t","e","s","t","_">> \o Decimal(n) \o <<"@","e","x","a","m","p","l","e",".","c","o","m">> : n \in RandomInts}
      [] kind = "phone" -> {<<"5","5","5">> \o d : d \in RandomDigits(7)}
      [] kind = "zip" -> RandomDigits(5)
      [] kind = "date" -> {<<"2","0","2","4","-">> \o d[1] \o <<"-">> \o d[2] : d \in RandomDates}
      [] kind = "password" -> {<<"T","e","s","t","@">> \o Decimal(n) : n \in RandomInts}
      [] kind = "coupon" -> IF PromoCode(clean_step) # <<>> THEN {PromoCode(clean_step)} ELSE {<<"T","E","S","T">> \o d : d \in RandomDigits(4)}
      [] kind = "step_number" -> {FirstNumber(clean_step)}
      [] kind = "search" -> {SearchTerm(lower(clean_step))}
      [] kind = "one" -> {<<"1">>}
      [] kind = "generic_text" -> {<<"T","e","s","t"," ","V","a","l","u","e">>}

\* the lines one run can write for a line of the rules
RenderLine(line) ==
    IF line.kind = "fill_input_field"
    THEN {[line EXCEPT !.value = text] : text \in ValueTexts(line.value, CleanStep(normalized_steps[line.step]))}
    ELSE {line}

RECURSIVE Renderings(_)
\* the bodies the runs can return for the lines of the rules
Renderings(lines) ==
    IF lines = <<>> THEN {<<>>}
    ELSE {<<line>> \o rest : line \in RenderLine(Head(lines)), rest \in Renderings(Tail(lines))}

\* two runs of _generate_test_body_from_steps on the steps, the inventory and the
\* answers of the backend and of the embedding model that gave body: each run makes
\* its own draws
DrawValues ==
    /\ pc = "script_done"
    /\ \E first \in Renderings(body), second \in Renderings(body) :
           result' = [kind |-> "runs", first |-> first, second |-> second]
    /\ pc' = "runs_done"
    /\ UNCHANGED <<prompt, retrieved_docs, used_chunks, strategy, raw_response, test_cases, backend_calls, envVars, genVars, logVars, auxVars>>

\* C21: two runs of the script generator on the same steps, the same inventory and the
\* same answers of the backend and of the embedding model write the same actions in the
\* same order, with the same targets and the same filled values
C21_TwoRunsSameScript ==
    pc = "runs_done" =>
        /\ Len(result.first) = Len(result.second)
        /\ \A j \in 1..Len(result.first) :
               /\ result.first[j].kind = result.second[j].kind
               /\ result.first[j].target = result.second[j].target
               /\ result.first[j].value = result.second[j].value

\* what the two runs share: the actions, their order and their targets
TwoRunsSameActionsAndTargets ==
    pc = "runs_done" =>
        /\ Len(result.first) = Len(result.second)
        /\ \A j \in 1..Len(result.first) :
               /\ result.first[j].step = result.second[j].step
               /\ result.first[j].kind = result.second[j].kind
               /\ result.first[j].target = result.second[j].target

\* a value differs between the runs only where it is made with random.randint
OnlyRandomValuesDiffer ==
    pc = "runs_done" =>
        \A j \in 1..Len(result.first) :
            result.first[j].value # result.second[j].value =>
                /\ body[j].kind = "fill_input_field"
                /\ \/ body[j].value \in {"email", "phone", "zip", "date", "password"}
                   \/ body[j].value = "coupon" /\ PromoCode(CleanStep(normalized_steps[body[j].step])) = <<>>

\* the two runs fill the same field with different values
TwoRunsFillDifferentValues ==
    /\ pc = "runs_done"
    /\ \E j \in 1..Len(result.first) :
           /\ result.first[j].kind = "fill_input_field" /\ result.second[j].kind = "fill_input_field"
           /\ result.first[j].target = result.second[j].target
           /\ result.first[j].value # result.second[j].value

NextScript == MapSteps \/ EmitPlaceholder \/ MapAction \/ ReturnBody \/ FinalVerification \/ DrawValues

SpecScript == InitScript /\ [][NextScript]_vars

(***************************************************************************)
(* Properties of adaptive_test_generation_strategy: the confidence         *)
(***************************************************************************)
\* C27: for every chunk list and prompt the confidence of the strategy lies in [0, 1],
\* also when the distance of a chunk lies outside [0, 1]
C27_ConfidenceInUnitInterval ==
    (pc = "decided" /\ "confidence" \in DOMAIN strategy) => (strategy.confidence >= 0 /\ strategy.confidence <= 1000000)

\* line 188: the sum is capped at 1
ConfidenceAtMostOne == (pc = "decided" /\ "confidence" \in DOMAIN strategy) => strategy.confidence <= 1000000

\* with every distance in [0, 1] (or absent) the confidence is not negative
ConfidenceOfUnitDistances ==
    (pc = "decided" /\ "confidence" \in DOMAIN strategy
     /\ \A i \in 1..Len(retrieved_docs) : "distance" \in DOMAIN retrieved_docs[i] => retrieved_docs[i].distance \in 0..100)
        => strategy.confidence >= 0

\* a chunk with a distance above 1 has a negative embedding score (lines 99-100, no
\* clamp) and the strategy is returned with a negative confidence
NegativeConfidence ==
    /\ pc = "decided" /\ "confidence" \in DOMAIN strategy /\ strategy.confidence < 0
    /\ \E i \in 1..Len(used_chunks) : used_chunks[i].distance > 100 /\ EmbeddingScore(used_chunks[i]) < 0

(***************************************************************************)
(* Properties of the result and the log of generate_test_cases             *)
(***************************************************************************)
\* C28: in every result generate_test_cases returns no test case carries _action = drop,
\* every test case has a _quality_score of at least 0.5, and each case whose
\* _quality_score is below 0.65 has needs_review = true.
C28_ReturnedCasesPassedTheFilters ==
    (pc = "returned" /\ result.kind = "returned") =>
        \A i \in 1..Len(result.test_cases) :
            /\ result.test_cases[i].action # "drop"
            /\ ~StoredBelow(result.test_cases[i], 5000)
            /\ (StoredBelow(result.test_cases[i], 6500) => result.test_cases[i].needs_review)

\* a batch returned after a stage removed a case, with a case in it whose score lies just
\* below 0.65 and which is flagged for review
C28_Witness ==
    /\ Succeeded /\ validating_count > result.count
    /\ \E i \in 1..Len(result.test_cases) :
         /\ result.test_cases[i].quality_score = 6500 /\ result.test_cases[i].score_rounds_down
         /\ result.test_cases[i].needs_review

\* the records of the log that open a request and have no later record that closes it
Unanswered(log) ==
    {i \in 1..Len(log) : /\ log[i].event = "generation_request"
                         /\ ~\E j \in (i + 1)..Len(log) : log[j].event = "generation_response" /\ log[j].session_id = log[i].session_id}

\* C29: once the call has ended, in whichever way, every generation_request record of the
\* log is followed by a generation_response record with the same request id.
C29_RequestRecordAnswered == pc \in {"returned", "raised"} => Unanswered(generation_log) = {}

\* the request record is answered when the call returns a batch or raises
AnsweredOnSuccessAndException == (Succeeded \/ pc = "raised") => Unanswered(generation_log) = {}

\* an early return after the backend call leaves the request record alone in the log
EarlyReturnsLeaveRequestOpen ==
    (pc = "returned" /\ backend_calls > 0 /\ "error" \in DOMAIN result) => Unanswered(generation_log) = {1} /\ Len(generation_log) = 1

\* the call returned the unparseable-output payload
UnparseableReturned == pc = "returned" /\ result = UnparseablePayload /\ Unanswered(generation_log) # {}

\* C30: in every successful result the number of test cases that entered validation equals
\* count + metadata.dropped_cases + metadata.duplicates_removed.
C30_EveryRemovedCaseCounted ==
    Succeeded => validating_count = result.count + result.metadata.dropped_cases + result.metadata.duplicates_removed

\* the metadata never counts a case twice
RemovedCasesNotOvercounted ==
    Succeeded => validating_count >= result.count + result.metadata.dropped_cases + result.metadata.duplicates_removed

\* a batch returned with a case missing from the counts
UncountedCase ==
    Succeeded /\ validating_count > result.count + result.metadata.dropped_cases + result.metadata.duplicates_removed

====
